---- MODULE Spec2Model ----
(***************************************************************************)
(* A model of the composition primitives of @jmdisuanco/flow (src/index.ts *)
(* and src/validation.ts): pipe, parallel, branch, race and cycle, and the *)
(* validation wrapper withSchema, run on a JavaScript event loop.          *)
(*                                                                         *)
(* A program is a tree of nodes (prog): leaves are step functions of the   *)
(* caller, inner nodes are the primitives.  Invoking a node runs the       *)
(* synchronous part of its function and returns a value, a thrown error or *)
(* a promise (a task).  Every await suspends its async function; the       *)
(* continuation is put on the microtask queue when the awaited promise     *)
(* settles (at once when it is settled already, or not a promise) and the  *)
(* queue is served first-in first-out.  An asynchronous step settles in a  *)
(* macrotask of its own, which the loop takes only when the microtask      *)
(* queue is empty.  Errors are objects on a heap, so that annotating an    *)
(* error is a mutation every holder of the reference sees.                 *)
(*                                                                         *)
(* A behaviour is one invocation of the composed function: the program and *)
(* the input are chosen freely, the asynchronous steps settle in any order.*)
(* The specifications Spec... start from a constructed program;            *)
(* SpecConstruct starts from the arguments of a primitive and constructs   *)
(* it first, SpecOverlap and SpecRepeat invoke the composed function again.*)
(***************************************************************************)
EXTENDS Integers, Sequences, FiniteSets, TLC

VARIABLES prog,    \* the composed program: a sequence of nodes, the root at 1
          tasks,   \* the promises of the invocations made so far
          heap,    \* the error objects created so far
          queue,   \* the microtask queue: continuations ready to run
          log,     \* history: every invocation and settlement, in order
          calls,   \* how many times the caller invoked the composed function
          built    \* construction: "no" (prog holds the arguments), "ok", "threw"

vars == <<prog, tasks, heap, queue, log, calls, built>>

\* Bounds of the model.
MaxLen == 3      \* longest step list of a pipe, parallel or race
MaxInput == 2    \* inputs are 0..MaxInput
MaxNestLen == 2  \* longest step list of the pipes of a nested program
MaxCalls == 3    \* invocations of one composed function
MaxMax == 4      \* largest maxIterations of a cycle

Inputs == 0..MaxInput

NoLabel == ""    \* an undefined label, nodeContext or function name
NoSchema == ""   \* an absent schema
NotArray == "notarray"  \* kind of a primitive whose step list is not an array

(***************************************************************************)
(* Nodes                                                                   *)
(***************************************************************************)
Node(type, kind, mode, kids, label, max) ==
    [type |-> type, kind |-> kind, mode |-> mode, kids |-> kids,
     label |-> label, max |-> max, input |-> NoSchema, output |-> NoSchema]

\* A step function of the caller: kind says what it computes, mode whether
\* it is a plain function ("sync"), an async function that does not wait
\* (it returns a promise that is settled already: "settled") or returns a
\* promise that settles later ("async").
Leaf(kind, mode) == Node("leaf", kind, mode, <<>>, NoLabel, 0)

\* withSchema(fn, { input, output }, label): fn is the node at index kid.
WithSchema(kid, input, output, label) ==
    [Node("schema", "", "sync", <<kid>>, label, 0)
        EXCEPT !.input = input, !.output = output]

\* An entry of a step list that is not a function; kind is its typeof.
NotFn(ty) == Node("notfn", ty, "sync", <<>>, NoLabel, 0)

\* JavaScript truthiness of a number.
Truthy(v) == v # 0

(***************************************************************************)
(* The step functions used by the repository's tests and examples.         *)
(* LeafFn gives a step's outcome on input a: a value, or the error thrown. *)
(***************************************************************************)
LeafFn(kind, a) ==
    CASE kind = "inc"   -> [ok |-> TRUE, val |-> a + 1, err |-> ""]
      [] kind = "dbl"   -> [ok |-> TRUE, val |-> a * 2, err |-> ""]
      [] kind = "id"    -> [ok |-> TRUE, val |-> a, err |-> ""]
      [] kind = "lt2"   -> [ok |-> TRUE, val |-> IF a < 2 THEN 1 ELSE 0, err |-> ""]
      [] kind = "true"  -> [ok |-> TRUE, val |-> 1, err |-> ""]
      [] kind = "failV" -> [ok |-> FALSE, val |-> 0, err |-> "ValidationError"]
      [] kind = "failE" -> [ok |-> FALSE, val |-> 0, err |-> "Error"]
      [] kind = "between" ->
            IF a > 0 THEN [ok |-> TRUE, val |-> a, err |-> ""]
            ELSE [ok |-> FALSE, val |-> 0, err |-> "Between"]

(***************************************************************************)
(* Errors: objects on the heap                                             *)
(***************************************************************************)
\* new ValidationError(message): no details, so flowContext and nodeContext
\* are undefined (flowSet = FALSE, nodeContext = NoLabel).
ValidationError(msg, n) ==
    [kind |-> "ValidationError", msg |-> msg, flowSet |-> FALSE, flow |-> <<>>,
     nodeContext |-> NoLabel, node |-> n, errors |-> <<>>, recvSet |-> FALSE,
     received |-> 0]

\* new ValidationError(message, { errors, received, nodeContext }), as
\* withSchema and the validate helpers build it.
ValidationErrorWith(msg, errors, received, nodeContext, n) ==
    [kind |-> "ValidationError", msg |-> msg, flowSet |-> FALSE, flow |-> <<>>,
     nodeContext |-> nodeContext, node |-> n, errors |-> errors, recvSet |-> TRUE,
     received |-> received]

\* new Error(message)
Error(msg, n) ==
    [kind |-> "Error", msg |-> msg, flowSet |-> FALSE, flow |-> <<>>,
     nodeContext |-> NoLabel, node |-> n, errors |-> <<>>, recvSet |-> FALSE,
     received |-> 0]

\* The error object a failing step function creates.
StepError(kind, n) ==
    IF kind = "ValidationError" THEN ValidationError("Test validation error", n)
    ELSE Error("Test error", n)

\* validate.between(z.number().positive(), 'parse', 'save')(data) on data that
\* fails the schema: the error is born with a flowContext.
BetweenError(n, data) ==
    [kind |-> "ValidationError", msg |-> "Validation failed between 'parse' and 'save'",
     flowSet |-> TRUE, flow |-> <<"parse", "VALIDATION_FAILED", "save">>,
     nodeContext |-> NoLabel, node |-> n,
     errors |-> <<"Too small: expected number to be >0">>, recvSet |-> TRUE,
     received |-> data]

\* The error object a step function creates when it fails on input a.
LeafError(kind, n, a) ==
    IF kind = "Between" THEN BetweenError(n, a) ELSE StepError(kind, n)

(***************************************************************************)
(* The run-time state an operation works on: S = [tasks, heap, queue, log] *)
(***************************************************************************)
St == [tasks |-> tasks, heap |-> heap, queue |-> queue, log |-> log]

Commit(S) ==
    /\ tasks' = S.tasks
    /\ heap' = S.heap
    /\ queue' = S.queue
    /\ log' = S.log

LogEv(S, ev, pt, ps, n, ok, v) ==
    [S EXCEPT !.log = Append(@, [ev |-> ev, pt |-> pt, ps |-> ps, node |-> n,
                                 ok |-> ok, val |-> v])]

\* Allocate an error object; its reference is the new length of the heap.
AllocErr(S, rec) == [S EXCEPT !.heap = Append(@, rec)]

\* What an invocation hands back to its caller.
Value(v) == [tag |-> "value", val |-> v, err |-> 0, task |-> 0]
Throw(e) == [tag |-> "throw", val |-> 0, err |-> e, task |-> 0]
Promise(t) == [tag |-> "promise", val |-> 0, err |-> 0, task |-> t]

\* A pending promise for the invocation of node n with argument a, made by
\* slot ps of task pt (0, 0: by the caller of the composed function).
NewTask(n, a, pt, ps, ncb) ==
    [node |-> n, arg |-> a, pt |-> pt, ps |-> ps, st |-> "pending",
     val |-> 0, err |-> 0, waiters |-> <<>>,
     cbs |-> [i \in 1..ncb |-> [st |-> "new", val |-> 0, err |-> 0, child |-> 0]],
     cur |-> a, iter |-> 0, joined |-> FALSE,
     ist |-> "pending", ival |-> 0, ierr |-> 0, adopt |-> "none"]

AddTask(S, T) == [S EXCEPT !.tasks = Append(@, T)]

Cont(t, i, ph) == [t |-> t, slot |-> i, ph |-> ph]

\* A promise that takes every settlement, the last one winning.
SettleLast(S, t, ok, v, e) ==
    LET T == S.tasks[t]
        S1 == [S EXCEPT !.tasks[t].st = IF ok THEN "resolved" ELSE "rejected",
                        !.tasks[t].val = v,
                        !.tasks[t].err = e,
                        !.tasks[t].waiters = <<>>,
                        !.queue = @ \o T.waiters]
    IN LogEv(S1, "settle", T.pt, T.ps, T.node, ok, IF ok THEN v ELSE e)
\* Settle a promise once: later settlements of a settled promise are ignored.
\* The continuations waiting on it become microtasks, in registration order.
Settle(S, t, ok, v, e) ==
    IF S.tasks[t].st # "pending" THEN S
    ELSE LET T == S.tasks[t]
             S1 == [S EXCEPT !.tasks[t].st = IF ok THEN "resolved" ELSE "rejected",
                             !.tasks[t].val = v,
                             !.tasks[t].err = e,
                             !.tasks[t].waiters = <<>>,
                             !.queue = @ \o T.waiters]
         IN LogEv(S1, "settle", T.pt, T.ps, T.node, ok, IF ok THEN v ELSE e)

\* corePipe, coreParallel and the function of race are async functions that
\* return a promise of their own making: that of fns.reduce, of Promise.all,
\* of Promise.race.  This inner promise (ist, ival, ierr) is settled once;
\* the promise of the async function follows it when the reaction the
\* function's return registered has run.
SettleInner(S, t, ok, v, e) ==
    IF S.tasks[t].ist # "pending" THEN S
    ELSE LET S1 == [S EXCEPT !.tasks[t].ist = IF ok THEN "ok" ELSE "err",
                             !.tasks[t].ival = v,
                             !.tasks[t].ierr = e]
         IN IF S.tasks[t].adopt = "then"
            THEN [S1 EXCEPT !.queue = Append(@, Cont(t, 0, "adopted"))]
            ELSE S1

\* `return p' in an async function, p a promise: the function's promise is
\* resolved with p, which queues the job that will call p.then.  Nothing is
\* returned when the function has thrown before.
ReturnPromise(S, t) ==
    IF S.tasks[t].st # "pending" THEN S
    ELSE [S EXCEPT !.tasks[t].adopt = "job",
                   !.queue = Append(@, Cont(t, 0, "thenable"))]

\* Phase "thenable": the job calls p.then(resolve, reject); the reaction is
\* queued at once when p is settled, else when p settles.  Phase "adopted":
\* the reaction settles the promise of the async function as p is settled.
AdoptCont(S, t, ph) ==
    IF ph = "thenable"
    THEN IF S.tasks[t].ist = "pending" THEN [S EXCEPT !.tasks[t].adopt = "then"]
         ELSE [S EXCEPT !.queue = Append(@, Cont(t, 0, "adopted"))]
    ELSE Settle(S, t, S.tasks[t].ist = "ok", S.tasks[t].ival, S.tasks[t].ierr)

\* `await r' in slot i of task t, r not a thrown error: the continuation
\* (phase "step") runs in a later microtask, once r is settled.
Await(S, t, i, r) ==
    IF r.tag = "value"
    THEN [S EXCEPT !.tasks[t].cbs[i] = [st |-> "step", val |-> r.val, err |-> 0, child |-> 0],
                   !.queue = Append(@, Cont(t, i, "step"))]
    ELSE LET c == r.task
             S1 == [S EXCEPT !.tasks[t].cbs[i] = [st |-> "step", val |-> 0, err |-> 0, child |-> c]]
         IN IF S.tasks[c].st = "pending"
            THEN [S1 EXCEPT !.tasks[c].waiters = Append(@, Cont(t, i, "step"))]
            ELSE [S1 EXCEPT !.queue = Append(@, Cont(t, i, "step"))]

\* The outcome of what slot i of task t awaited.
AwaitedOk(S, t, i) ==
    LET cb == S.tasks[t].cbs[i]
    IN IF cb.child = 0 THEN TRUE ELSE S.tasks[cb.child].st = "resolved"
AwaitedVal(S, t, i) ==
    LET cb == S.tasks[t].cbs[i]
    IN IF cb.child = 0 THEN cb.val ELSE S.tasks[cb.child].val
AwaitedErr(S, t, i) == S.tasks[S.tasks[t].cbs[i].child].err

\* Invoking a node may invoke its entries (parallel and race invoke them all
\* before their first await), so invocation is recursive over the tree.
RECURSIVE InvokeNode(_, _, _, _, _)

(***************************************************************************)
(* Invocation of a step function                                           *)
(***************************************************************************)
\* A plain function runs to its end inside the invocation: it returns its
\* value or throws.  An async function that does not wait (async x => x + 1)
\* runs to its end too, and returns a promise that is settled already.  Any
\* other async step returns a pending promise, which the action LeafSettle
\* settles later.
InvokeLeaf(S, n, a, pt, ps) ==
    LET o == LeafFn(prog[n].kind, a)
        S1 == AllocErr(S, LeafError(o.err, n, a))
        S2 == AddTask(S, NewTask(n, a, pt, ps, 0))
        S3 == AddTask(S1, NewTask(n, a, pt, ps, 0))
    IN CASE prog[n].mode = "sync" ->
              IF o.ok
              THEN [S |-> LogEv(S, "settle", pt, ps, n, TRUE, o.val), r |-> Value(o.val)]
              ELSE [S |-> LogEv(S1, "settle", pt, ps, n, FALSE, Len(S1.heap)),
                    r |-> Throw(Len(S1.heap))]
         [] prog[n].mode = "settled" ->
              IF o.ok
              THEN [S |-> Settle(S2, Len(S2.tasks), TRUE, o.val, 0),
                    r |-> Promise(Len(S2.tasks))]
              ELSE [S |-> Settle(S3, Len(S3.tasks), FALSE, 0, Len(S3.heap)),
                    r |-> Promise(Len(S3.tasks))]
         [] prog[n].mode = "async" ->
              [S |-> S2, r |-> Promise(Len(S2.tasks))]

(***************************************************************************)
(* pipe                                                                    *)
(***************************************************************************)
\* const { label = 'pipe' } = validation
PipeLabel(nd) == IF nd.label = NoLabel THEN "pipe" ELSE nd.label

\* `${label}[${index}]`, index counted from 0
FlowEntry(label, index) == label \o "[" \o ToString(index) \o "]"

\* A catch clause that does not look at the class of the error.
AnnotateAny(S, e, entry) ==
    [S EXCEPT !.heap[e].flowSet = TRUE,
              !.heap[e].flow = <<entry>> \o @]

\* A catch clause that sets the flowContext to its own entry.
AnnotateReplacing(S, e, entry) ==
    IF S.heap[e].kind = "ValidationError"
    THEN [S EXCEPT !.heap[e].flowSet = TRUE,
                   !.heap[e].flow = <<entry>>]
    ELSE S

\* The catch clause of the reducer, of parallel's handler and of coreBranch:
\* a ValidationError gets the entry put in front of its flowContext (an
\* undefined flowContext is first set to []); any other error is left alone.
\* The error object itself is changed.
Annotate(S, e, entry) ==
    IF S.heap[e].kind = "ValidationError"
    THEN [S EXCEPT !.heap[e].flowSet = TRUE,
                   !.heap[e].flow = <<entry>> \o @]
    ELSE S

\* A shape error that counts the entries from one.
PipeShapeErrorFromOne(n, index, ty) ==
    Error("All items in pipe array must be functions (item " \o ToString(index + 1)
          \o " is " \o ty \o ")", n)
\* `All items in pipe array must be functions (item ${index} is ${typeof nxt})`
PipeShapeError(n, index, ty) ==
    Error("All items in pipe array must be functions (item " \o ToString(index)
          \o " is " \o ty \o ")", n)

\* The promise of the reducer's i-th callback settles.  The callback after
\* it, if it is already waiting for this payload, becomes a microtask; the
\* last callback's promise is the one corePipe returns.
SettleCb(S, t, i, ok, v, e) ==
    LET n == Len(S.tasks[t].cbs)
        S1 == [S EXCEPT !.tasks[t].cbs[i] =
                  [st |-> IF ok THEN "ok" ELSE "err", val |-> v, err |-> e, child |-> 0]]
    IN IF i = n THEN SettleInner(S1, t, ok, v, e)
       ELSE IF S1.tasks[t].cbs[i + 1].st = "wait"
            THEN [S1 EXCEPT !.queue = Append(@, Cont(t, i + 1, "payload"))]
            ELSE S1

\* Whether the payload of callback i is settled: the payload of the first
\* callback is Promise.resolve(param), that of a later one is the promise of
\* the callback before it.
PayloadSettled(S, t, i) == i = 1 \/ S.tasks[t].cbs[i - 1].st \in {"ok", "err"}
\* A reducer that takes every settled payload for a fulfilled one.
PayloadOkAlways(S, t, i) == TRUE
PayloadOk(S, t, i) == i = 1 \/ S.tasks[t].cbs[i - 1].st = "ok"
PayloadValParam(S, t, i) == S.tasks[t].arg
\* A pipe that remembers: its first payload is the input of the invocation
\* the caller made before this one.
PayloadValPrevious(S, t, i) ==
    LET before == {r \in 1..(t - 1) : S.tasks[r].pt = 0}
        last == CHOOSE r \in before : \A q \in before : q <= r
    IN IF i > 1 THEN S.tasks[t].cbs[i - 1].val
       ELSE IF before = {} THEN S.tasks[t].arg
       ELSE S.tasks[last].arg
PayloadVal(S, t, i) == IF i = 1 THEN S.tasks[t].arg ELSE S.tasks[t].cbs[i - 1].val
PayloadErr(S, t, i) == S.tasks[t].cbs[i - 1].err

\* A reducer that does not wait for its payload: nxt is called at once, with
\* the input of the pipe.
PipeCallbackEager(S, t, i) ==
    LET n == S.tasks[t].node
        kid == prog[n].kids[i]
        S1 == AllocErr(S, PipeShapeError(n, i - 1, prog[kid].kind))
        R == InvokeNode(S, kid, S.tasks[t].arg, t, i)
    IN IF prog[kid].type = "notfn"
       THEN SettleCb(S1, t, i, FALSE, 0, Len(S1.heap))
       ELSE IF R.r.tag = "throw" THEN SettleCb(R.S, t, i, FALSE, 0, R.r.err)
       ELSE Await(R.S, t, i, R.r)

\* A reducer whose callback looks at its payload first: after a callback that
\* has failed, an entry that is not a function passes that failure on.
PipeCallbackFirstFailure(S, t, i) ==
    LET n == S.tasks[t].node
        kid == prog[n].kids[i]
        S1 == AllocErr(S, PipeShapeError(n, i - 1, prog[kid].kind))
        S2 == [S EXCEPT !.tasks[t].cbs[i].st = "wait"]
    IN IF prog[kid].type = "notfn"
       THEN IF i > 1 /\ S.tasks[t].cbs[i - 1].st = "err"
            THEN SettleCb(S, t, i, FALSE, 0, S.tasks[t].cbs[i - 1].err)
            ELSE SettleCb(S1, t, i, FALSE, 0, Len(S1.heap))
       ELSE IF PayloadSettled(S, t, i)
            THEN [S2 EXCEPT !.queue = Append(@, Cont(t, i, "payload"))]
            ELSE S2

\* The synchronous part of the reducer's callback for index i (1-based here,
\* i - 1 in the source): the typeof check, then `await payload'.
PipeCallback(S, t, i) ==
    LET n == S.tasks[t].node
        kid == prog[n].kids[i]
        S1 == AllocErr(S, PipeShapeError(n, i - 1, prog[kid].kind))
        S2 == [S EXCEPT !.tasks[t].cbs[i].st = "wait"]
    IN IF prog[kid].type = "notfn"
       THEN SettleCb(S1, t, i, FALSE, 0, Len(S1.heap))
       ELSE IF PayloadSettled(S, t, i)
            THEN [S2 EXCEPT !.queue = Append(@, Cont(t, i, "payload"))]
            ELSE S2

\* fns.reduce(callback, Promise.resolve(param)): reduce calls the callback
\* for every index in turn, synchronously; each call returns a promise.
RECURSIVE PipeReduce(_, _, _)
PipeReduce(S, t, i) ==
    IF i > Len(S.tasks[t].cbs) THEN S
    ELSE PipeReduce(PipeCallback(S, t, i), t, i + 1)

\* corePipe(param): an async function that returns the promise of the
\* reduce, which is the promise of the last callback.
corePipe(S, n, a, pt, ps) ==
    LET S1 == AddTask(S, NewTask(n, a, pt, ps, Len(prog[n].kids)))
        t == Len(S1.tasks)
    IN [S |-> ReturnPromise(PipeReduce(S1, t, 1), t), r |-> Promise(t)]

(***************************************************************************)
(* parallel                                                                *)
(***************************************************************************)
\* const { label = 'parallel' } = validation
ParallelLabel(nd) == IF nd.label = NoLabel THEN "parallel" ELSE nd.label

\* `All items in parallel array must be functions (item ${index} is ${typeof fn})`
ParallelShapeError(n, index, ty) ==
    Error("All items in parallel array must be functions (item " \o ToString(index)
          \o " is " \o ty \o ")", n)

\* fns.map(callback) from index i on.  The callback throws for an entry that
\* is not a function, and a step that throws synchronously throws out of
\* the callback too: either ends the map and rejects the promise of the
\* async function, the entries after it untouched.  Otherwise the step's
\* result is wrapped: Promise.resolve(fn(param)).catch(handler).
RECURSIVE ParallelMap(_, _, _)
ParallelMap(S, t, i) ==
    LET n == S.tasks[t].node
        kid == prog[n].kids[i]
        S1 == AllocErr(S, ParallelShapeError(n, i - 1, prog[kid].kind))
        R == InvokeNode(S, kid, S.tasks[t].arg, t, i)
    IN IF i > Len(prog[n].kids) THEN S
       ELSE IF prog[kid].type = "notfn" THEN Settle(S1, t, FALSE, 0, Len(S1.heap))
       ELSE IF R.r.tag = "throw" THEN Settle(R.S, t, FALSE, 0, R.r.err)
       ELSE ParallelMap(Await(R.S, t, i, R.r), t, i + 1)

\* The values of the steps in the order in which they completed.
SlotValuesByCompletion(S, t) ==
    LET Test(e) == e.ev = "settle" /\ e.pt = t /\ e.ok
        done == SelectSeq(S.log, Test)
    IN [j \in 1..Len(done) |-> done[j].val]

\* The values of the slots, in the order of the step list.
SlotValues(S, t) == [j \in 1..Len(S.tasks[t].cbs) |-> S.tasks[t].cbs[j].val]

\* Promise.all has taken the value of every slot.
AllSlotsOk(S, t) == \A j \in 1..Len(S.tasks[t].cbs) : S.tasks[t].cbs[j].st = "counted"

\* Promise.all(promises), reached when the map has ended without a throw: it
\* registers a reaction on the promise of every slot.  Of an empty list its
\* promise is resolved at once with [].
PromiseAll(S, t) ==
    LET S1 == [S EXCEPT !.tasks[t].joined = TRUE]
    IN IF S.tasks[t].st # "pending" THEN S
       ELSE IF Len(S.tasks[t].cbs) = 0 THEN SettleInner(S1, t, TRUE, <<>>, 0)
       ELSE S1

\* A coreParallel that is no async function: what the map throws, it throws.
coreParallelThrowing(S, n, a, pt, ps) ==
    LET S1 == AddTask(S, NewTask(n, a, pt, ps, Len(prog[n].kids)))
        t == Len(S1.tasks)
        S2 == ParallelMap(S1, t, 1)
    IN IF S2.tasks[t].st = "rejected"
       THEN [S |-> S2, r |-> Throw(S2.tasks[t].err)]
       ELSE [S |-> ReturnPromise(PromiseAll(S2, t), t), r |-> Promise(t)]
\* coreParallel(param): an async function that returns the promise of
\* Promise.all, unless the map threw.
coreParallel(S, n, a, pt, ps) ==
    LET S1 == AddTask(S, NewTask(n, a, pt, ps, Len(prog[n].kids)))
        t == Len(S1.tasks)
    IN [S |-> ReturnPromise(PromiseAll(ParallelMap(S1, t, 1), t), t), r |-> Promise(t)]

(***************************************************************************)
(* branch                                                                  *)
(***************************************************************************)
\* const { label = 'branch' } = validation
BranchLabel(nd) == IF nd.label = NoLabel THEN "branch" ELSE nd.label

\* A catch clause that puts the label in front twice.
BranchCatchTwice(S, t, e) ==
    LET entry == BranchLabel(prog[S.tasks[t].node])
    IN Settle(Annotate(Annotate(S, e, entry), e, entry), t, FALSE, 0, e)
\* A failure inside coreBranch's try block: the catch clause annotates a
\* ValidationError with the label and rethrows, which rejects the promise.
BranchCatch(S, t, e) ==
    Settle(Annotate(S, e, BranchLabel(prog[S.tasks[t].node])), t, FALSE, 0, e)

\* Invoke fn (the condition in slot 1, the selected branch in slot 2) with
\* the branch's own input and await what it returns.
BranchInvoke(S, t, i, fn) ==
    LET R == InvokeNode(S, fn, S.tasks[t].arg, t, i)
    IN IF R.r.tag = "throw" THEN BranchCatch(R.S, t, R.r.err)
       ELSE Await(R.S, t, i, R.r)

\* coreBranch(param), to its first await: kids = <<condition, trueFn, falseFn>>
coreBranch(S, n, a, pt, ps) ==
    LET S1 == AddTask(S, NewTask(n, a, pt, ps, 2))
        t == Len(S1.tasks)
    IN [S |-> BranchInvoke(S1, t, 1, prog[n].kids[1]), r |-> Promise(t)]

(***************************************************************************)
(* race                                                                    *)
(***************************************************************************)
\* 'All items in race array must be functions'
RaceShapeError(n) == Error("All items in race array must be functions", n)

\* fns.map(callback) from index i on: as in parallel, a throw of the callback
\* ends the map.  What a step returns is kept as it is, in slot i.
RECURSIVE RaceMap(_, _, _)
RaceMap(S, t, i) ==
    LET n == S.tasks[t].node
        kid == prog[n].kids[i]
        S1 == AllocErr(S, RaceShapeError(n))
        R == InvokeNode(S, kid, S.tasks[t].arg, t, i)
    IN IF i > Len(prog[n].kids) THEN S
       ELSE IF prog[kid].type = "notfn" THEN Settle(S1, t, FALSE, 0, Len(S1.heap))
       ELSE IF R.r.tag = "throw" THEN Settle(R.S, t, FALSE, 0, R.r.err)
       ELSE RaceMap([R.S EXCEPT !.tasks[t].cbs[i] =
                        [st |-> "new", val |-> R.r.val, err |-> 0, child |-> R.r.task]],
                    t, i + 1)

\* Promise.race(results): a reaction is registered on every entry in turn.
RECURSIVE PromiseRace(_, _, _)
PromiseRace(S, t, i) ==
    LET cb == S.tasks[t].cbs[i]
        r == IF cb.child = 0 THEN Value(cb.val) ELSE Promise(cb.child)
    IN IF S.tasks[t].st # "pending" \/ i > Len(S.tasks[t].cbs) THEN S
       ELSE PromiseRace(Await([S EXCEPT !.tasks[t].joined = TRUE], t, i, r), t, i + 1)

\* 'race() requires an array of functions'
RaceArrayError(n) == Error("race() requires an array of functions", n)

\* The async function race() returns: the Array.isArray test is made here,
\* on every invocation, and its throw rejects the promise.
coreRace(S, n, a, pt, ps) ==
    LET S1 == AddTask(S, NewTask(n, a, pt, ps, Len(prog[n].kids)))
        t == Len(S1.tasks)
        S2 == AllocErr(S1, RaceArrayError(n))
    IN IF prog[n].kind = NotArray
       THEN [S |-> Settle(S2, t, FALSE, 0, Len(S2.heap)), r |-> Promise(t)]
       ELSE [S |-> ReturnPromise(PromiseRace(RaceMap(S1, t, 1), t, 1), t), r |-> Promise(t)]

(***************************************************************************)
(* cycle                                                                   *)
(***************************************************************************)
\* `Cycle exceeded maximum iterations (${maxIterations})`
BoundError(n, max) ==
    Error("Cycle exceeded maximum iterations (" \o ToString(max) \o ")", n)

\* 'cycle() requires bodyFn and condition functions'
CycleShapeError(n) == Error("cycle() requires bodyFn and condition functions", n)

\* A cycle whose current and iterations belong to the composed function:
\* every invocation reads and writes those of the first one.
FrameShared(S, t) == 1
\* `let current = param; let iterations = 0' are declared inside the async
\* function: invocation t reads and writes its own.
Frame(S, t) == t

\* Invoke fn (the condition in slot 1, bodyFn in slot 2) with current and
\* await what it returns.  Nothing catches: a throw rejects the promise.
CycleInvoke(S, t, i, fn) ==
    LET R == InvokeNode(S, fn, S.tasks[Frame(S, t)].cur, t, i)
    IN IF R.r.tag = "throw" THEN Settle(R.S, t, FALSE, 0, R.r.err)
       ELSE Await(R.S, t, i, R.r)

\* The async function cycle() returns, to its first await:
\* kids = <<bodyFn, condition>>, max = maxIterations.
coreCycle(S, n, a, pt, ps) ==
    LET S1 == AddTask(S, NewTask(n, a, pt, ps, 2))
        t == Len(S1.tasks)
        S2 == AllocErr(S1, CycleShapeError(n))
    IN IF prog[prog[n].kids[1]].type = "notfn" \/ prog[prog[n].kids[2]].type = "notfn"
       THEN [S |-> Settle(S2, t, FALSE, 0, Len(S2.heap)), r |-> Promise(t)]
       ELSE [S |-> CycleInvoke(S1, t, 1, prog[n].kids[2]), r |-> Promise(t)]

(***************************************************************************)
(* withSchema                                                              *)
(***************************************************************************)
\* schema.safeParse(data) for the schemas the repository uses on numbers:
\* z.number() accepts every number, z.number().positive() those above 0,
\* z.number().min(18) those from 18 on; "plus10" stands for a schema whose parsed data differs from the raw data
\* (a coercion, default or transform).  A failure carries the issues.
SafeParse(schema, data) ==
    CASE schema = "number" -> [success |-> TRUE, data |-> data, issues |-> <<>>]
      [] schema = "positive" ->
            IF data > 0 THEN [success |-> TRUE, data |-> data, issues |-> <<>>]
            ELSE [success |-> FALSE, data |-> data,
                  issues |-> <<"Too small: expected number to be >0">>]
      [] schema = "min18" ->
            IF data >= 18 THEN [success |-> TRUE, data |-> data, issues |-> <<>>]
            ELSE [success |-> FALSE, data |-> data,
                  issues |-> <<"Too small: expected number to be >=18">>]
      [] schema = "plus10" -> [success |-> TRUE, data |-> data + 10, issues |-> <<>>]

\* fn.name: the name of the variable a function was first bound to, '' for
\* an inline arrow function.
FnName(nd) ==
    CASE nd.type = "pipe" -> "corePipe"
      [] nd.type = "parallel" -> "coreParallel"
      [] nd.type = "branch" -> "coreBranch"
      [] nd.type = "leaf" /\ nd.kind = "inc" -> "addOne"
      [] nd.type = "leaf" /\ nd.kind = "dbl" -> "double"
      [] nd.type = "leaf" /\ nd.kind = "failE" -> "throwError"
      [] OTHER -> ""

\* const functionLabel = label || fn.name || 'anonymous'
FunctionLabel(n) ==
    IF prog[n].label # NoLabel THEN prog[n].label
    ELSE IF FnName(prog[prog[n].kids[1]]) # "" THEN FnName(prog[prog[n].kids[1]])
    ELSE "anonymous"

\* The ValidationError of a failed input parse.
InputValidationError(n, issues, data) ==
    ValidationErrorWith("Input validation failed for function '" \o FunctionLabel(n) \o "'",
                        issues, data, FunctionLabel(n), n)

\* The ValidationError of a failed output parse.
OutputValidationError(n, issues, result) ==
    ValidationErrorWith("Output validation failed for function '" \o FunctionLabel(n) \o "'",
                        issues, result, FunctionLabel(n), n)

\* new Error(`Function '${functionLabel}' execution failed: ${errorMessage}`)
ExecutionError(n, errorMessage) ==
    Error("Function '" \o FunctionLabel(n) \o "' execution failed: " \o errorMessage, n)

\* A catch clause that rethrows whatever it caught.
SchemaCatchRethrow(S, t, e) == Settle(S, t, FALSE, 0, e)

\* A catch clause that puts its own label on every ValidationError.
SchemaCatchOverwrite(S, t, e) ==
    LET n == S.tasks[t].node
        S1 == [S EXCEPT !.heap[e].nodeContext = FunctionLabel(n)]
        S2 == AllocErr(S, ExecutionError(n, S.heap[e].msg))
    IN IF S.heap[e].kind = "ValidationError" THEN Settle(S1, t, FALSE, 0, e)
       ELSE Settle(S2, t, FALSE, 0, Len(S2.heap))

\* The catch clause around `await fn(validatedInput)': a ValidationError has
\* its nodeContext filled in if it has none and is rethrown, the same
\* object; any other error is replaced by a new Error that keeps its message
\* only.
SchemaCatch(S, t, e) ==
    LET n == S.tasks[t].node
        S1 == [S EXCEPT !.heap[e].nodeContext =
                  IF @ = NoLabel THEN FunctionLabel(n) ELSE @]
        S2 == AllocErr(S, ExecutionError(n, S.heap[e].msg))
    IN IF S.heap[e].kind = "ValidationError" THEN Settle(S1, t, FALSE, 0, e)
       ELSE Settle(S2, t, FALSE, 0, Len(S2.heap))

\* A wrapper that forgets its input schema.
InputCheckedNever(nd) == FALSE

\* if (schemas.input) ...: whether the input is parsed at all.
InputChecked(nd) == nd.input # NoSchema

\* A wrapper that hands fn the raw data although the input was parsed.
ValidatedInputRaw(nd, data) == data

\* validatedInput: the parsed data with an input schema, else the raw data.
ValidatedInput(nd, data) ==
    IF InputChecked(nd) THEN SafeParse(nd.input, data).data ELSE data

\* The async function withSchema returns, to its first await.  kids = <<fn>>;
\* a parse is recorded in the history as event "parse" of slot 1 (input) or
\* 2 (output) with the data given to safeParse.
withSchema(S, n, data, pt, ps) ==
    LET S1 == AddTask(S, NewTask(n, data, pt, ps, 1))
        t == Len(S1.tasks)
        inputResult == SafeParse(prog[n].input, data)
        S2 == IF InputChecked(prog[n])
              THEN LogEv(S1, "parse", t, 1, n, inputResult.success, data)
              ELSE S1
        S3 == AllocErr(S2, InputValidationError(n, inputResult.issues, data))
        R == InvokeNode(S2, prog[n].kids[1], ValidatedInput(prog[n], data), t, 1)
    IN IF InputChecked(prog[n]) /\ ~inputResult.success
       THEN [S |-> Settle(S3, t, FALSE, 0, Len(S3.heap)), r |-> Promise(t)]
       ELSE IF R.r.tag = "throw"
            THEN [S |-> SchemaCatch(R.S, t, R.r.err), r |-> Promise(t)]
            ELSE [S |-> Await(R.S, t, 1, R.r), r |-> Promise(t)]

(***************************************************************************)
(* Invocation of a node                                                    *)
(***************************************************************************)
InvokeNode(S, n, a, pt, ps) ==
    LET S1 == LogEv(S, "invoke", pt, ps, n, TRUE, a)
    IN CASE prog[n].type = "leaf" -> InvokeLeaf(S1, n, a, pt, ps)
         [] prog[n].type = "pipe" -> corePipe(S1, n, a, pt, ps)
         [] prog[n].type = "parallel" -> coreParallel(S1, n, a, pt, ps)
         [] prog[n].type = "branch" -> coreBranch(S1, n, a, pt, ps)
         [] prog[n].type = "race" -> coreRace(S1, n, a, pt, ps)
         [] prog[n].type = "cycle" -> coreCycle(S1, n, a, pt, ps)
         [] prog[n].type = "schema" -> withSchema(S1, n, a, pt, ps)

(***************************************************************************)
(* Continuations                                                           *)
(***************************************************************************)
\* The rest of the reducer's callback i, from `await payload' on:
\*   try { return await nxt(await payload) } catch (error) { ...; throw error }
\* Phase "payload": the payload is settled.  A rejected payload throws inside
\* the try block, so the catch clause runs for it as for a failure of nxt.
\* Phase "step": what nxt returned is settled.
PipeCont(S, t, i, ph) ==
    LET n == S.tasks[t].node
        entry == FlowEntry(PipeLabel(prog[n]), i - 1)
        R == InvokeNode(S, prog[n].kids[i], PayloadVal(S, t, i), t, i)
    IN IF ph = "payload"
       THEN IF ~PayloadOk(S, t, i)
            THEN SettleCb(Annotate(S, PayloadErr(S, t, i), entry), t, i, FALSE, 0,
                          PayloadErr(S, t, i))
            ELSE IF R.r.tag = "throw"
                 THEN SettleCb(Annotate(R.S, R.r.err, entry), t, i, FALSE, 0, R.r.err)
                 ELSE Await(R.S, t, i, R.r)
       ELSE IF AwaitedOk(S, t, i)
            THEN SettleCb(S, t, i, TRUE, AwaitedVal(S, t, i), 0)
            ELSE SettleCb(Annotate(S, AwaitedErr(S, t, i), entry), t, i, FALSE, 0,
                          AwaitedErr(S, t, i))

\* Phase "step": the handler of slot i of a parallel runs, the step's
\* promise is settled.  A failure is annotated and rethrown, which rejects
\* the slot's promise; a success resolves it.  The reaction of Promise.all
\* on the slot's promise is queued; without Promise.all (the map threw) the
\* slot's promise has no one waiting.
\* Phase "all": the reaction of Promise.all runs.  A rejected slot rejects
\* the promise of Promise.all; a resolved one is counted, and the promise is
\* resolved with the values of the slots once every slot is counted.
ParallelCont(S, t, i, ph) ==
    LET n == S.tasks[t].node
        e == AwaitedErr(S, t, i)
        Sok == [S EXCEPT !.tasks[t].cbs[i] =
                   [st |-> "ok", val |-> AwaitedVal(S, t, i), err |-> 0, child |-> 0]]
        Serr == [Annotate(S, e, FlowEntry(ParallelLabel(prog[n]), i - 1))
                   EXCEPT !.tasks[t].cbs[i] =
                   [st |-> "err", val |-> 0, err |-> e, child |-> 0]]
        Sset == IF AwaitedOk(S, t, i) THEN Sok ELSE Serr
        Scnt == [S EXCEPT !.tasks[t].cbs[i].st = "counted"]
    IN IF ph = "step"
       THEN IF Sset.tasks[t].joined
            THEN [Sset EXCEPT !.queue = Append(@, Cont(t, i, "all"))]
            ELSE Sset
       ELSE IF S.tasks[t].cbs[i].st = "err"
            THEN SettleInner(S, t, FALSE, 0, S.tasks[t].cbs[i].err)
            ELSE IF AllSlotsOk(Scnt, t)
                 THEN SettleInner(Scnt, t, TRUE, SlotValues(Scnt, t), 0)
                 ELSE Scnt

\* A selection with the branches exchanged.
SelectedFnSwapped(nd, shouldTakeTrue) ==
    IF Truthy(shouldTakeTrue) THEN nd.kids[3] ELSE nd.kids[2]

\* const selectedFn = shouldTakeTrue ? trueFn : falseFn
SelectedFn(nd, shouldTakeTrue) ==
    IF Truthy(shouldTakeTrue) THEN nd.kids[2] ELSE nd.kids[3]

\* coreBranch after an await.  Slot 1: the condition is settled; the branch
\* it selects is invoked.  Slot 2: the selected branch is settled.
BranchCont(S, t, i) ==
    LET n == S.tasks[t].node
        selectedFn == SelectedFn(prog[n], AwaitedVal(S, t, 1))
    IN IF ~AwaitedOk(S, t, i) THEN BranchCatch(S, t, AwaitedErr(S, t, i))
       ELSE IF i = 1 THEN BranchInvoke(S, t, 2, selectedFn)
       ELSE Settle(S, t, TRUE, AwaitedVal(S, t, 2), 0)

\* A race that puts an entry of its own in front of the flowContext.
RaceContAnnotating(S, t, i) ==
    IF AwaitedOk(S, t, i) THEN SettleInner(S, t, TRUE, AwaitedVal(S, t, i), 0)
    ELSE SettleInner(Annotate(S, AwaitedErr(S, t, i), "race"), t, FALSE, 0,
                     AwaitedErr(S, t, i))
\* The reaction Promise.race registered on entry i runs: it settles the
\* promise of Promise.race, which has an effect only the first time.
RaceCont(S, t, i) ==
    IF AwaitedOk(S, t, i) THEN SettleInner(S, t, TRUE, AwaitedVal(S, t, i), 0)
    ELSE SettleInner(S, t, FALSE, 0, AwaitedErr(S, t, i))

\* A loop test that stops one iteration short of the bound.
LoopGuardShort(v, iterations, maxIterations) ==
    Truthy(v) /\ iterations < maxIterations - 1

\* A loop test that does not look at the condition.
LoopGuardNoCondition(v, iterations, maxIterations) == iterations < maxIterations

\* (await condition(current)) && iterations < maxIterations, v the value
\* the condition resolved with
LoopGuard(v, iterations, maxIterations) ==
    Truthy(v) /\ iterations < maxIterations

\* A bound test that lets the iteration that reaches the bound pass.
BoundReachedLate(iterations, maxIterations) == iterations > maxIterations

\* A loop without the test of the bound after an iteration.
BoundReachedNever(iterations, maxIterations) == FALSE
\* if (iterations >= maxIterations) throw ...
BoundReached(iterations, maxIterations) == iterations >= maxIterations

\* The loop of cycle after an await.
\*   while ((await condition(current)) && iterations < maxIterations) {
\*     current = await bodyFn(current); iterations++
\*     if (iterations >= maxIterations) throw new Error(...) }
\*   return current
\* Slot 1: the condition is settled.  Slot 2: bodyFn is settled.
CycleCont(S, t, i) ==
    LET n == S.tasks[t].node
        T == S.tasks[Frame(S, t)]
        S1 == [S EXCEPT !.tasks[Frame(S, t)].cur = AwaitedVal(S, t, 2),
                        !.tasks[Frame(S, t)].iter = @ + 1]
        S2 == AllocErr(S1, BoundError(n, prog[n].max))
    IN IF ~AwaitedOk(S, t, i) THEN Settle(S, t, FALSE, 0, AwaitedErr(S, t, i))
       ELSE IF i = 1
            THEN IF LoopGuard(AwaitedVal(S, t, 1), T.iter, prog[n].max)
                 THEN CycleInvoke(S, t, 2, prog[n].kids[1])
                 ELSE Settle(S, t, TRUE, T.cur, 0)
            ELSE IF BoundReached(S1.tasks[Frame(S, t)].iter, prog[n].max)
                 THEN Settle(S2, t, FALSE, 0, Len(S2.heap))
                 ELSE CycleInvoke(S1, t, 1, prog[n].kids[2])

\* if (schemas.output) ...: whether the result is parsed at all.
OutputChecked(nd) == nd.output # NoSchema

\* A wrapper that returns the result of fn although the output was parsed.
ParsedOutputRaw(schema, result) == result

\* return outputResult.data
ParsedOutput(schema, result) == SafeParse(schema, result).data

\* withSchema's function after `await fn(validatedInput)'.  A rejection goes
\* to the catch clause; a result is parsed against the output schema, if
\* there is one, and the parsed data returned, else returned as it is.
SchemaCont(S, t) ==
    LET n == S.tasks[t].node
        result == AwaitedVal(S, t, 1)
        outputResult == SafeParse(prog[n].output, result)
        S1 == LogEv(S, "parse", t, 2, n, outputResult.success, result)
        S2 == AllocErr(S1, OutputValidationError(n, outputResult.issues, result))
    IN IF ~AwaitedOk(S, t, 1) THEN SchemaCatch(S, t, AwaitedErr(S, t, 1))
       ELSE IF OutputChecked(prog[n])
            THEN IF outputResult.success
                 THEN Settle(S1, t, TRUE, ParsedOutput(prog[n].output, result), 0)
                 ELSE Settle(S2, t, FALSE, 0, Len(S2.heap))
            ELSE Settle(S, t, TRUE, result, 0)

RunCont(S, c) ==
    CASE c.ph \in {"thenable", "adopted"} -> AdoptCont(S, c.t, c.ph)
      [] prog[S.tasks[c.t].node].type = "pipe" -> PipeCont(S, c.t, c.slot, c.ph)
      [] prog[S.tasks[c.t].node].type = "parallel" -> ParallelCont(S, c.t, c.slot, c.ph)
      [] prog[S.tasks[c.t].node].type = "branch" -> BranchCont(S, c.t, c.slot)
      [] prog[S.tasks[c.t].node].type = "race" -> RaceCont(S, c.t, c.slot)
      [] prog[S.tasks[c.t].node].type = "cycle" -> CycleCont(S, c.t, c.slot)
      [] prog[S.tasks[c.t].node].type = "schema" -> SchemaCont(S, c.t)

(***************************************************************************)
(* Programs                                                                *)
(***************************************************************************)
\* The entries a step list of the model is drawn from.
PipeEntries ==
    {Leaf("inc", "sync"), Leaf("dbl", "sync"), Leaf("failV", "sync"),
     Leaf("failE", "sync"), Leaf("inc", "async"), Leaf("failV", "async"),
     NotFn("string")}

\* pipe(fns, { label }): the node of the pipe at 1, its entries after it.
\* pipe() throws for an empty list, so a composed pipe has at least one entry.
PipeProgram(fns, label) ==
    <<Node("pipe", "", "sync", [i \in 1..Len(fns) |-> i + 1], label, 0)>> \o fns

SeqsUpTo(S, lo, hi) == UNION {[1..k -> S] : k \in lo..hi}

PipePrograms == {PipeProgram(fns, NoLabel) : fns \in SeqsUpTo(PipeEntries, 1, MaxLen)}

\* pipe(outer, { label: 'outer' }) whose entry p is pipe(inner, { label:
\* 'inner' }); the other entries of outer are those of o.
NestEntries == {Leaf("inc", "sync"), Leaf("inc", "async")}
InnerEntries ==
    {Leaf("inc", "sync"), Leaf("inc", "async"), Leaf("failV", "sync"),
     Leaf("failV", "async"), Leaf("failE", "sync")}

NestProgram(o, p, q) ==
    <<Node("pipe", "", "sync", [i \in 1..Len(o) |-> i + 1], "outer", 0)>>
    \o [i \in 1..Len(o) |->
          IF i = p
          THEN Node("pipe", "", "sync", [j \in 1..Len(q) |-> Len(o) + 1 + j], "inner", 0)
          ELSE o[i]]
    \o q

NestPrograms ==
    {NestProgram(o, p, q) : <<o, p, q>> \in
        {x \in SeqsUpTo(NestEntries, 1, MaxNestLen) \X (1..MaxNestLen)
               \X SeqsUpTo(InnerEntries, 1, MaxNestLen) : x[2] <= Len(x[1])}}

\* parallel(fns)
ParallelEntries ==
    {Leaf("inc", "sync"), Leaf("failV", "sync"), Leaf("failE", "sync"),
     Leaf("inc", "async"), Leaf("dbl", "async"), Leaf("failV", "async"),
     Leaf("failE", "async"), Leaf("inc", "settled"), Leaf("failE", "settled"),
     NotFn("string")}

ParallelProgram(fns, label) ==
    <<Node("parallel", "", "sync", [i \in 1..Len(fns) |-> i + 1], label, 0)>> \o fns

ParallelPrograms ==
    {ParallelProgram(fns, NoLabel) : fns \in SeqsUpTo(ParallelEntries, 0, MaxLen)}

\* branch(condition, trueFn, falseFn)
ConditionFns ==
    {Leaf("id", "sync"), Leaf("id", "async"), Leaf("failV", "sync"),
     Leaf("failE", "async")}
TrueFns ==
    {Leaf("inc", "sync"), Leaf("inc", "async"), Leaf("failV", "async"),
     Leaf("failE", "sync")}
FalseFns ==
    {Leaf("dbl", "sync"), Leaf("dbl", "async"), Leaf("failV", "sync"),
     Leaf("failE", "async")}

BranchProgram(c, tf, ff, label) ==
    <<Node("branch", "", "sync", <<2, 3, 4>>, label, 0), c, tf, ff>>

BranchPrograms ==
    {BranchProgram(c, tf, ff, NoLabel) : <<c, tf, ff>> \in ConditionFns \X TrueFns \X FalseFns}

\* branch(condition, pipe([step]), falseFn, { label })
NestedBranch(c, step, label) ==
    <<Node("branch", "", "sync", <<2, 3, 4>>, label, 0), c,
      Node("pipe", "", "sync", <<5>>, NoLabel, 0), Leaf("failV", "sync"), step>>

\* Branches with and without a label of their own, over step functions and
\* over a pipe.
BranchLabels == {NoLabel, "choose"}
LabelledBranchPrograms ==
    {BranchProgram(c, tf, ff, label) :
        <<c, tf, ff, label>> \in ConditionFns \X TrueFns \X FalseFns \X BranchLabels}
    \cup {NestedBranch(c, step, label) :
            <<c, step, label>> \in {Leaf("id", "sync"), Leaf("id", "async")}
                \X {Leaf("failV", "sync"), Leaf("failV", "async"),
                    Leaf("failE", "async"), Leaf("inc", "async")}
                \X BranchLabels}

\* race(fns)
RaceEntries ==
    {Leaf("inc", "sync"), Leaf("failE", "sync"), Leaf("inc", "async"),
     Leaf("dbl", "async"), Leaf("failE", "async"), Leaf("failV", "async"),
     NotFn("string")}

RaceProgram(fns) ==
    <<Node("race", "", "sync", [i \in 1..Len(fns) |-> i + 1], NoLabel, 0)>> \o fns

RacePrograms == {RaceProgram(fns) : fns \in SeqsUpTo(RaceEntries, 0, MaxLen)}

\* cycle(bodyFn, condition, maxIterations)
BodyFns ==
    {Leaf("inc", "sync"), Leaf("inc", "async"), Leaf("dbl", "sync"),
     Leaf("failE", "async")}
CycleConditions ==
    {Leaf("lt2", "sync"), Leaf("lt2", "async"), Leaf("true", "sync"),
     Leaf("failE", "sync")}

CycleProgram(b, c, max) ==
    <<Node("cycle", "", "sync", <<2, 3>>, NoLabel, max), b, c>>

CyclePrograms ==
    {CycleProgram(b, c, max) : <<b, c, max>> \in BodyFns \X CycleConditions \X (0..MaxMax)}

\* Races and cycles whose steps fail with validation errors, some of them
\* pipes of one step: race([pipe([step]), other]) and
\* cycle(pipe([step]), condition, max).
FailingEntries ==
    {Leaf("inc", "async"), Leaf("failV", "sync"), Leaf("failV", "async"),
     Leaf("failV", "settled"), Leaf("failE", "async")}
NestedRace(step, other) ==
    <<Node("race", "", "sync", <<2, 3>>, NoLabel, 0),
      Node("pipe", "", "sync", <<4>>, NoLabel, 0), other, step>>
NestedCycle(step, c, max) ==
    <<Node("cycle", "", "sync", <<2, 3>>, NoLabel, max),
      Node("pipe", "", "sync", <<4>>, NoLabel, 0), c, step>>
FailingConditions ==
    {Leaf("lt2", "sync"), Leaf("lt2", "async"), Leaf("failV", "sync"),
     Leaf("failV", "async")}
FailingPrograms ==
    {RaceProgram(fns) : fns \in SeqsUpTo(FailingEntries, 1, MaxNestLen)}
    \cup {NestedRace(step, other) :
            <<step, other>> \in {Leaf("failV", "sync"), Leaf("failV", "async")}
                                \X {Leaf("inc", "async"), Leaf("failE", "async")}}
    \cup {CycleProgram(b, c, max) :
            <<b, c, max>> \in (FailingEntries \cup {Leaf("inc", "sync")})
                              \X FailingConditions \X (1..MaxNestLen)}
    \cup {NestedCycle(step, c, 2) :
            <<step, c>> \in {Leaf("failV", "sync"), Leaf("failV", "async")}
                            \X {Leaf("lt2", "sync"), Leaf("lt2", "async")}}

\* Races of steps that settle at different times, and parallels of such
\* steps that fail fast: one step at least fails.
InFlightEntries ==
    {Leaf("inc", "sync"), Leaf("inc", "async"), Leaf("dbl", "async"),
     Leaf("failE", "async"), Leaf("failV", "async")}
Fails(fn) == ~LeafFn(fn.kind, 0).ok
InFlightPrograms ==
    {RaceProgram(fns) : fns \in SeqsUpTo(InFlightEntries, 1, MaxNestLen)}
    \cup {ParallelProgram(fns, NoLabel) :
            fns \in {l \in SeqsUpTo(InFlightEntries, 1, MaxNestLen) :
                        \E i \in DOMAIN l : Fails(l[i])}}

\* Cycles that are invoked a second time while the first invocation runs.
OverlapPrograms ==
    {CycleProgram(b, c, max) :
        <<b, c, max>> \in {Leaf("inc", "sync"), Leaf("inc", "async")}
                          \X {Leaf("lt2", "sync"), Leaf("lt2", "async"), Leaf("true", "sync")}
                          \X (2..MaxLen)}

\* withSchema(fn, { input, output }, label) of a step function
WrappedFns ==
    {Leaf("inc", "sync"), Leaf("id", "sync"), Leaf("inc", "async"),
     Leaf("id", "settled"), Leaf("failE", "sync"), Leaf("failE", "async"),
     Leaf("failV", "sync"), Leaf("failV", "settled")}
InputSchemas == {NoSchema, "number", "positive", "plus10"}
OutputSchemas == {NoSchema, "number", "positive", "min18", "plus10"}
SchemaLabels == {NoLabel, "check"}

WithSchemaProgram(fn, input, output, label) ==
    <<WithSchema(2, input, output, label), fn>>

WithSchemaPrograms ==
    {WithSchemaProgram(x[1], x[2], x[3], x[4]) :
        x \in WrappedFns \X InputSchemas \X OutputSchemas \X SchemaLabels}

\* Put prog behind a wrapper node: every index of prog moves up by one.
Wrapped(wrapper, core) ==
    <<wrapper>> \o [i \in DOMAIN core |->
                      [core[i] EXCEPT !.kids = [j \in DOMAIN @ |-> @[j] + 1]]]

\* pipe(fns, { input, output, label }): with a schema the core function is
\* wrapped by withSchema under the pipe's label, else returned as it is.
ValidatedPipe(fns, input, output, label) ==
    IF input # NoSchema \/ output # NoSchema
    THEN Wrapped(WithSchema(2, input, output, PipeLabel(PipeProgram(fns, label)[1])),
                 PipeProgram(fns, label))
    ELSE PipeProgram(fns, label)

\* parallel(fns, { input, output, label })
ValidatedParallel(fns, input, output, label) ==
    IF input # NoSchema \/ output # NoSchema
    THEN Wrapped(WithSchema(2, input, output, ParallelLabel(ParallelProgram(fns, label)[1])),
                 ParallelProgram(fns, label))
    ELSE ParallelProgram(fns, label)

\* branch(condition, trueFn, falseFn, { input, output, label })
ValidatedBranch(c, tf, ff, input, output, label) ==
    IF input # NoSchema \/ output # NoSchema
    THEN Wrapped(WithSchema(2, input, output, BranchLabel(BranchProgram(c, tf, ff, label)[1])),
                 BranchProgram(c, tf, ff, label))
    ELSE BranchProgram(c, tf, ff, label)

\* The flows built with validation options.
FlowEntries ==
    {Leaf("inc", "sync"), Leaf("dbl", "sync"), Leaf("inc", "async"),
     Leaf("failE", "sync"), Leaf("failE", "async"), Leaf("failV", "async")}
FlowLabels == {NoLabel, "flow"}
PipeValidations ==
    {<<"positive", NoSchema>>, <<NoSchema, "positive">>, <<"number", "positive">>,
     <<"plus10", "number">>}
ParallelValidations == {<<"positive", NoSchema>>, <<"plus10", NoSchema>>}

ValidatedPrograms ==
    {ValidatedPipe(x[1], x[2][1], x[2][2], x[3]) :
        x \in SeqsUpTo(FlowEntries, 1, MaxLen) \X PipeValidations \X FlowLabels}
    \cup {ValidatedParallel(x[1], x[2][1], x[2][2], x[3]) :
        x \in SeqsUpTo(FlowEntries, 1, MaxNestLen) \X ParallelValidations \X FlowLabels}
    \cup {ValidatedBranch(c, Leaf("failE", "sync"), Leaf("failE", "async"),
                          "positive", "number", NoLabel) :
        c \in {Leaf("lt2", "sync"), Leaf("lt2", "async")}}

\* The flows built without validation options, with and without a label.
PlainPrograms ==
    {ValidatedPipe(x[1], NoSchema, NoSchema, x[2]) :
        x \in SeqsUpTo(FlowEntries, 1, MaxLen) \X FlowLabels}
    \cup {ValidatedParallel(x[1], NoSchema, NoSchema, x[2]) :
        x \in SeqsUpTo(FlowEntries \cup {Leaf("failE", "settled")}, 1, MaxLen) \X FlowLabels}

\* Composed functions that are invoked several times, one invocation after
\* the other: pipes, pipes with schemas, a branch and a cycle.
RepeatEntries == {Leaf("inc", "sync"), Leaf("dbl", "async"), Leaf("failV", "async")}
RepeatPrograms ==
    {PipeProgram(fns, NoLabel) : fns \in SeqsUpTo(RepeatEntries, 1, MaxNestLen)}
    \cup {ValidatedPipe(<<fn>>, x[1], x[2], "flow") :
            fn \in {Leaf("inc", "sync"), Leaf("dbl", "async")}, x \in PipeValidations}
    \cup {BranchProgram(Leaf("id", "async"), Leaf("inc", "async"), Leaf("failV", "sync"), NoLabel),
          CycleProgram(Leaf("inc", "async"), Leaf("lt2", "sync"), 2)}

\* withSchema(fn, {}, label) around a step that fails with a validation
\* error, around another withSchema, and around a pipe of one step.
ContextSteps ==
    {Leaf("failV", "sync"), Leaf("failV", "async"), Leaf("between", "sync"),
     Leaf("between", "async"), Leaf("inc", "sync")}
InnerLabels == {NoLabel, "inner"}
NestedSchemaProgram(step, input, inner, outer) ==
    <<WithSchema(2, NoSchema, NoSchema, outer), WithSchema(3, input, NoSchema, inner), step>>
NestedSchemaPrograms ==
    {WithSchemaProgram(step, NoSchema, NoSchema, outer) :
        <<step, outer>> \in ContextSteps \X SchemaLabels}
    \cup {NestedSchemaProgram(x[1], x[2], x[3], x[4]) :
            x \in ContextSteps \X {NoSchema, "positive"} \X InnerLabels \X SchemaLabels}
    \cup {Wrapped(WithSchema(2, NoSchema, NoSchema, outer), PipeProgram(<<step>>, NoLabel)) :
            <<step, outer>> \in ContextSteps \X SchemaLabels}

\* Nestings of pipe, parallel, branch and withSchema, two deep, around a step
\* that fails with a validation error: pipe([id, fn]), parallel([other, fn]),
\* branch(id, inc, fn) and withSchema(fn, {}, 'check').
Shifted(core, k) ==
    [i \in DOMAIN core |-> [core[i] EXCEPT !.kids = [j \in DOMAIN @ |-> @[j] + k]]]
InPipe(core) ==
    <<Node("pipe", "", "sync", <<2, 3>>, NoLabel, 0), Leaf("id", "sync")>>
    \o Shifted(core, 2)
InParallel(core) ==
    <<Node("parallel", "", "sync", <<2, 3>>, NoLabel, 0), Leaf("failV", "async")>>
    \o Shifted(core, 2)
InBranch(core) ==
    <<Node("branch", "", "sync", <<2, 3, 4>>, NoLabel, 0), Leaf("id", "sync"),
      Leaf("inc", "sync")>> \o Shifted(core, 3)
InSchema(core) == Wrapped(WithSchema(2, NoSchema, NoSchema, "check"), core)
Layers(cores) ==
    {InPipe(c) : c \in cores} \cup {InParallel(c) : c \in cores}
    \cup {InBranch(c) : c \in cores} \cup {InSchema(c) : c \in cores}
ThrowingSteps ==
    {<<Leaf("failV", "sync")>>, <<Leaf("failV", "async")>>,
     <<Leaf("between", "sync")>>, <<Leaf("between", "async")>>}
PropagationPrograms == Layers(ThrowingSteps) \cup Layers(Layers(ThrowingSteps))

(***************************************************************************)
(* Construction: the primitives applied to their arguments                 *)
(***************************************************************************)
\* The arguments are given as the program they describe: p[1] is the node of
\* the primitive (kind NotArray: the step list is not an array; input,
\* output, label: the validation options), the nodes after it its entries.
\* A primitive returns the composed function (a program) or throws.
Built(p) == [ok |-> TRUE, prog |-> p, err |-> Error("", 0)]
Thrown(msg) == [ok |-> FALSE, prog |-> <<>>, err |-> Error(msg, 0)]

\* if (inputSchema || outputSchema) return withSchema(core, schemas, label);
\* return core
WithValidation(p, label) ==
    IF p[1].input # NoSchema \/ p[1].output # NoSchema
    THEN Wrapped(WithSchema(2, p[1].input, p[1].output, label),
                 [p EXCEPT ![1].input = NoSchema, ![1].output = NoSchema])
    ELSE p

\* A pipe that takes any step list.
pipeAnyList(p) == Built(WithValidation(p, PipeLabel(p[1])))
\* pipe(fns, validation)
pipe(p) ==
    IF p[1].kind = NotArray THEN Thrown("pipe() requires an array of functions")
    ELSE IF p[1].kids = <<>> THEN Thrown("pipe() requires at least one function")
    ELSE Built(WithValidation(p, PipeLabel(p[1])))

\* parallel(fns, validation)
parallel(p) ==
    IF p[1].kind = NotArray THEN Thrown("parallel() requires an array of functions")
    ELSE Built(WithValidation(p, ParallelLabel(p[1])))

\* branch(condition, trueFn, falseFn, validation)
branch(p) ==
    IF \E i \in 1..3 : p[p[1].kids[i]].type = "notfn"
    THEN Thrown("branch() requires three functions: condition, trueFn, falseFn")
    ELSE Built(WithValidation(p, BranchLabel(p[1])))

\* race(fns): nothing is tested here
race(p) == Built(p)

\* cycle(bodyFn, condition, maxIterations): nothing is tested here
cycle(p) == Built(p)

Construction(p) ==
    CASE p[1].type = "pipe" -> pipe(p)
      [] p[1].type = "parallel" -> parallel(p)
      [] p[1].type = "branch" -> branch(p)
      [] p[1].type = "race" -> race(p)
      [] p[1].type = "cycle" -> cycle(p)

\* The arguments the primitives are constructed from in SpecConstruct: step
\* lists that are not arrays, empty or hold entries that are not functions,
\* and arguments of branch and cycle that are not functions.
RawEntries ==
    {Leaf("inc", "sync"), Leaf("inc", "async"), Leaf("failE", "sync"),
     NotFn("string"), NotFn("number")}
RawLists == SeqsUpTo(RawEntries, 0, MaxLen)
NoList(type) == <<Node(type, NotArray, "sync", <<>>, NoLabel, 0)>>

RawPrograms ==
    {NoList("pipe"), NoList("parallel"), NoList("race")}
    \cup {PipeProgram(fns, NoLabel) : fns \in RawLists}
    \cup {[PipeProgram(<<Leaf("inc", "async")>>, NoLabel) EXCEPT ![1].input = "positive"]}
    \cup {ParallelProgram(fns, NoLabel) : fns \in SeqsUpTo(RawEntries, 0, MaxNestLen)}
    \cup {RaceProgram(fns) : fns \in SeqsUpTo(RawEntries, 0, MaxNestLen)}
    \cup {BranchProgram(x[1], x[2], x[3], NoLabel) :
            x \in {Leaf("id", "sync"), NotFn("string")}
                  \X {Leaf("inc", "async"), NotFn("object")}
                  \X {Leaf("dbl", "sync"), NotFn("undefined")}}
    \cup {CycleProgram(x[1], x[2], 2) :
            x \in {Leaf("inc", "sync"), NotFn("string")}
                  \X {Leaf("lt2", "async"), NotFn("undefined")}}

(***************************************************************************)
(* Actions                                                                 *)
(***************************************************************************)
Pending(t) == tasks[t].st = "pending"

\* The caller invokes the composed function with input x: the one invocation
\* of a behaviour.
Call(x) ==
    /\ built = "ok"
    /\ calls = 0
    /\ calls' = calls + 1
    /\ Commit(InvokeNode(St, 1, x, 0, 0).S)
    /\ UNCHANGED <<prog, built>>

\* The event loop runs the oldest microtask.
RunMicrotask ==
    /\ queue # <<>>
    /\ Commit(RunCont([St EXCEPT !.queue = Tail(@)], Head(queue)))
    /\ UNCHANGED <<prog, calls, built>>

\* An event loop that drops the steps of a composition that has settled:
\* their timers never fire.
LeafSettleCancelling(t) ==
    /\ queue = <<>>
    /\ prog[tasks[t].node].type = "leaf"
    /\ Pending(t)
    /\ tasks[t].pt # 0 => tasks[tasks[t].pt].st = "pending"
    /\ LET o == LeafFn(prog[tasks[t].node].kind, tasks[t].arg)
           S1 == AllocErr(St, LeafError(o.err, tasks[t].node, tasks[t].arg))
       IN IF o.ok THEN Commit(Settle(St, t, TRUE, o.val, 0))
          ELSE Commit(Settle(S1, t, FALSE, 0, Len(S1.heap)))
    /\ UNCHANGED <<prog, calls, built>>

\* The promise of an async step settles (a timer fires, I/O completes): a
\* macrotask, taken when no microtask is left.
LeafSettle(t) ==
    /\ queue = <<>>
    /\ prog[tasks[t].node].type = "leaf"
    /\ Pending(t)
    /\ LET o == LeafFn(prog[tasks[t].node].kind, tasks[t].arg)
           S1 == AllocErr(St, LeafError(o.err, tasks[t].node, tasks[t].arg))
       IN IF o.ok THEN Commit(Settle(St, t, TRUE, o.val, 0))
          ELSE Commit(Settle(S1, t, FALSE, 0, Len(S1.heap)))
    /\ UNCHANGED <<prog, calls, built>>

\* The caller calls the composed function a second time, at any moment
\* after the first call: before, while or after the first invocation runs.
CallAgain(x) ==
    /\ built = "ok"
    /\ calls = 1
    /\ calls' = calls + 1
    /\ Commit(InvokeNode(St, 1, x, 0, 0).S)
    /\ UNCHANGED <<prog, built>>

\* The caller calls the composed function once more, after the invocations
\* before it have come to their end: await f(x); await f(y); ...
CallRepeat(x) ==
    /\ built = "ok"
    /\ calls >= 1 /\ calls < MaxCalls
    /\ queue = <<>>
    /\ \A t \in DOMAIN tasks : tasks[t].st # "pending"
    /\ calls' = calls + 1
    /\ Commit(InvokeNode(St, 1, x, 0, 0).S)
    /\ UNCHANGED <<prog, built>>

\* The caller applies a primitive to its arguments: it gets the composed
\* function, or the primitive throws and there is nothing to invoke.
Construct ==
    /\ built = "no"
    /\ IF Construction(prog).ok
       THEN /\ built' = "ok"
            /\ prog' = Construction(prog).prog
            /\ heap' = heap
       ELSE /\ built' = "threw"
            /\ prog' = prog
            /\ heap' = Append(heap, Construction(prog).err)
    /\ UNCHANGED <<tasks, queue, log, calls>>

Next ==
    \/ \E x \in Inputs : Call(x)
    \/ RunMicrotask
    \/ \E t \in DOMAIN tasks : LeafSettle(t)

InitRun ==
    /\ tasks = <<>>
    /\ heap = <<>>
    /\ queue = <<>>
    /\ log = <<>>
    /\ calls = 0
    /\ built = "ok"

Init == InitRun /\ prog \in PipePrograms
Spec == Init /\ [][Next]_vars

InitNest == InitRun /\ prog \in NestPrograms
SpecNest == InitNest /\ [][Next]_vars

InitParallel == InitRun /\ prog \in ParallelPrograms
SpecParallel == InitParallel /\ [][Next]_vars

InitBranch == InitRun /\ prog \in BranchPrograms
SpecBranch == InitBranch /\ [][Next]_vars

InitRace == InitRun /\ prog \in RacePrograms
SpecRace == InitRace /\ [][Next]_vars

InitCycle == InitRun /\ prog \in CyclePrograms
SpecCycle == InitCycle /\ [][Next]_vars

NextConstruct == Construct \/ Next

InitConstruct ==
    /\ tasks = <<>>
    /\ heap = <<>>
    /\ queue = <<>>
    /\ log = <<>>
    /\ calls = 0
    /\ built = "no"
    /\ prog \in RawPrograms
SpecConstruct == InitConstruct /\ [][NextConstruct]_vars

InitBranchFlow == InitRun /\ prog \in LabelledBranchPrograms
SpecBranchFlow == InitBranchFlow /\ [][Next]_vars

InitFailing == InitRun /\ prog \in FailingPrograms
SpecFailing == InitFailing /\ [][Next]_vars

\* The event loop runs every microtask that is queued, and the timers and
\* the I/O the asynchronous steps wait for complete: whatever can happen
\* does happen.  Nothing in the primitives can take a step out of the loop.
TaskIds == 1..(MaxNestLen + 1)
Fairness ==
    /\ WF_vars(RunMicrotask)
    /\ \A t \in TaskIds : WF_vars(t \in DOMAIN tasks /\ LeafSettle(t))
InitInFlight == InitRun /\ prog \in InFlightPrograms
SpecInFlight == InitInFlight /\ [][Next]_vars /\ Fairness

NextOverlap ==
    \/ Next
    \/ \E x \in Inputs : CallAgain(x)
InitOverlap == InitRun /\ prog \in OverlapPrograms
SpecOverlap == InitOverlap /\ [][NextOverlap]_vars

NextRepeat ==
    \/ Next
    \/ \E x \in Inputs : CallRepeat(x)
InitRepeat == InitRun /\ prog \in RepeatPrograms
SpecRepeat == InitRepeat /\ [][NextRepeat]_vars

InitNestedSchema == InitRun /\ prog \in NestedSchemaPrograms
SpecNestedSchema == InitNestedSchema /\ [][Next]_vars

InitPropagation == InitRun /\ prog \in PropagationPrograms
SpecPropagation == InitPropagation /\ [][Next]_vars

InitPlain == InitRun /\ prog \in PlainPrograms
SpecPlain == InitPlain /\ [][Next]_vars

InitSchema == InitRun /\ prog \in WithSchemaPrograms
SpecSchema == InitSchema /\ [][Next]_vars

InitValidated == InitRun /\ prog \in ValidatedPrograms
SpecValidated == InitValidated /\ [][Next]_vars

(***************************************************************************)
(* Properties                                                              *)
(***************************************************************************)
\* The invocations the caller made.
Roots == {t \in DOMAIN tasks : tasks[t].pt = 0}
RootsOf(type) == {t \in Roots : prog[tasks[t].node].type = type}

Kids(t) == prog[tasks[t].node].kids
KidKind(t, i) == prog[Kids(t)[i]].kind
KidMode(t, i) == prog[Kids(t)[i]].mode

\* The invocations task t made of its entries, and their settlements, in order.
InvokesBy(t) ==
    LET Test(e) == e.ev = "invoke" /\ e.pt = t IN SelectSeq(log, Test)
SettlesFor(t) ==
    LET Test(e) == e.ev = "settle" /\ e.pt = t IN SelectSeq(log, Test)
InvokesOfSlot(t, i) ==
    LET Test(e) == e.ev = "invoke" /\ e.pt = t /\ e.ps = i IN SelectSeq(log, Test)

\* No asynchronous step is in flight and no continuation is left to run.
Quiescent ==
    /\ queue = <<>>
    /\ \A t \in DOMAIN tasks : prog[tasks[t].node].type = "leaf" => tasks[t].st # "pending"

\* fi(...f1(x)) for the first i steps of a list, each a function that succeeds.
RECURSIVE ComposeUpTo(_, _, _)
ComposeUpTo(kids, i, x) ==
    IF i = 0 THEN x ELSE LeafFn(prog[kids[i]].kind, ComposeUpTo(kids, i - 1, x)).val

\* C1: when a pipe of step functions resolves, its value is fn(...f2(f1(x))):
\* the first step was invoked with x, every later step with the value the
\* step before it resolved with, and the pipe resolves with the last value.
C1_PipeComposition ==
    \A t \in RootsOf("pipe") :
        /\ \A p \in DOMAIN log :
              (log[p].ev = "invoke" /\ log[p].pt = t)
              => log[p].val = ComposeUpTo(Kids(t), log[p].ps - 1, tasks[t].arg)
        /\ tasks[t].st = "resolved"
           => tasks[t].val = ComposeUpTo(Kids(t), Len(Kids(t)), tasks[t].arg)

\* pipe([x => x + 1, x => x * 2, async x => x + 1])(1) has resolved with 5.
C1_Witness ==
    \E t \in RootsOf("pipe") :
        /\ prog = PipeProgram(<<Leaf("inc", "sync"), Leaf("dbl", "sync"),
                                Leaf("inc", "async")>>, NoLabel)
        /\ tasks[t].arg = 1
        /\ tasks[t].st = "resolved"
        /\ tasks[t].val = 5

\* C2: within one invocation of a pipe the steps are invoked in increasing
\* index order, each at most once, step N+1 only after step N has resolved,
\* and never two of them in flight together.
C2_PipeSequential ==
    \A t \in DOMAIN tasks :
        prog[tasks[t].node].type = "pipe" =>
            /\ \A j, k \in DOMAIN InvokesBy(t) :
                  j < k => InvokesBy(t)[j].ps < InvokesBy(t)[k].ps
            /\ \A p \in DOMAIN log :
                  (log[p].ev = "invoke" /\ log[p].pt = t /\ log[p].ps > 1)
                  => \E q \in 1..(p - 1) :
                        /\ log[q].ev = "settle"
                        /\ log[q].pt = t
                        /\ log[q].ps = log[p].ps - 1
                        /\ log[q].ok
            /\ Len(InvokesBy(t)) - Len(SettlesFor(t)) <= 1

\* The second of three steps is in flight: the first has resolved and the
\* third has not been invoked.
C2_Witness ==
    \E t \in RootsOf("pipe") :
        /\ Len(Kids(t)) = 3
        /\ KidMode(t, 2) = "async"
        /\ Len(InvokesBy(t)) = 2
        /\ Len(SettlesFor(t)) = 1
        /\ tasks[t].st = "pending"

\* The index (from 0) of the entry of node n that is node kid.
IndexIn(n, kid) == (CHOOSE i \in DOMAIN prog[n].kids : prog[n].kids[i] = kid) - 1

\* C9: when the step at index i of a pipe fails with a validation error, the
\* error the pipe rejects with carries exactly one entry of that pipe,
\* "pipe[i]", in its flowContext.
C9_PipeOneEntry ==
    \A t \in RootsOf("pipe") :
        (tasks[t].st = "rejected" /\ heap[tasks[t].err].kind = "ValidationError")
        => heap[tasks[t].err].flow =
              <<FlowEntry("pipe", IndexIn(tasks[t].node, heap[tasks[t].err].node))>>

\* C10: an outer pipe labeled "outer" holds at index i a pipe labeled "inner"
\* whose step at index j fails validation: the error the outer pipe rejects
\* with has flowContext ["outer[i]", "inner[j]"].
C10_NestedFlowContext ==
    \A t \in RootsOf("pipe") :
        (tasks[t].st = "rejected" /\ heap[tasks[t].err].kind = "ValidationError")
        => \E i \in DOMAIN Kids(t) :
              /\ prog[Kids(t)[i]].type = "pipe"
              /\ heap[tasks[t].err].flow =
                    <<FlowEntry("outer", i - 1),
                      FlowEntry("inner", IndexIn(Kids(t)[i], heap[tasks[t].err].node))>>

\* C3: when every step succeeds, a parallel resolves with [f1(x), ..., fn(x)]
\* in the order of the step list, whatever the order the steps complete in.
C3_ParallelPositional ==
    \A t \in RootsOf("parallel") :
        tasks[t].st = "resolved"
        => /\ Len(tasks[t].val) = Len(Kids(t))
           /\ \A i \in DOMAIN Kids(t) :
                 tasks[t].val[i] = LeafFn(KidKind(t, i), tasks[t].arg).val

\* A parallel has resolved whose second step completed before its first,
\* the two with different values.
C3_Witness ==
    \E t \in RootsOf("parallel") :
        /\ tasks[t].st = "resolved"
        /\ Len(Kids(t)) >= 2
        /\ tasks[t].val[1] # tasks[t].val[2]
        /\ \E p, q \in DOMAIN log :
              /\ p < q
              /\ log[p].ev = "settle" /\ log[p].pt = t /\ log[p].ps = 2
              /\ log[q].ev = "settle" /\ log[q].pt = t /\ log[q].ps = 1

\* The settlement of the condition of branch t, when it is settled.
CondSettles(t) ==
    LET Test(e) == e.ev = "settle" /\ e.pt = t /\ e.ps = 1 IN SelectSeq(log, Test)

\* C4: a branch evaluates cond(x) first and exactly once, then invokes
\* trueFn(x) if the result is truthy and falseFn(x) otherwise, at most one of
\* them and once, and neither if cond fails; it returns that branch's result.
C4_BranchDispatch ==
    \A t \in RootsOf("branch") :
        /\ Len(InvokesOfSlot(t, 1)) = 1
        /\ InvokesBy(t)[1].node = Kids(t)[1]
        /\ InvokesBy(t)[1].val = tasks[t].arg
        /\ Len(InvokesOfSlot(t, 2)) <= 1
        /\ \A k \in DOMAIN InvokesOfSlot(t, 2) :
              /\ Len(CondSettles(t)) = 1
              /\ CondSettles(t)[1].ok
              /\ InvokesOfSlot(t, 2)[k].node =
                    IF Truthy(CondSettles(t)[1].val) THEN Kids(t)[2] ELSE Kids(t)[3]
              /\ InvokesOfSlot(t, 2)[k].val = tasks[t].arg
        /\ (Len(CondSettles(t)) = 1 /\ ~CondSettles(t)[1].ok)
           => (Len(InvokesOfSlot(t, 2)) = 0 /\ (queue = <<>> => tasks[t].st = "rejected"))
        /\ tasks[t].st = "resolved"
           => /\ Len(InvokesOfSlot(t, 2)) = 1
              /\ tasks[t].val =
                    LeafFn(prog[InvokesOfSlot(t, 2)[1].node].kind, tasks[t].arg).val

\* A branch whose condition was falsy has resolved with falseFn's result,
\* which differs from what trueFn would have given.
C4_Witness ==
    \E t \in RootsOf("branch") :
        /\ tasks[t].st = "resolved"
        /\ ~Truthy(CondSettles(t)[1].val)
        /\ InvokesOfSlot(t, 2)[1].node = Kids(t)[3]
        /\ LeafFn(KidKind(t, 2), tasks[t].arg).ok
        /\ LeafFn(KidKind(t, 2), tasks[t].arg).val # tasks[t].val

\* Every entry of the root's step list is a function.
AllFunctions == \A i \in DOMAIN prog[1].kids : prog[prog[1].kids[i]].type # "notfn"

\* C5: a race of step functions settles with the outcome of the step that
\* settled first; the outcome of a step that settled later is never the
\* outcome of the composed function.
C5_RaceFirstSettled ==
    \A t \in RootsOf("race") :
        (AllFunctions /\ tasks[t].st # "pending")
        => /\ Len(SettlesFor(t)) >= 1
           /\ SettlesFor(t)[1].ok = (tasks[t].st = "resolved")
           /\ SettlesFor(t)[1].val =
                 IF tasks[t].st = "resolved" THEN tasks[t].val ELSE tasks[t].err

\* The invocations of bodyFn and of the condition by cycle t.
BodyInvokes(t) == Len(InvokesOfSlot(t, 2))
CondInvokes(t) == Len(InvokesOfSlot(t, 1))
MaxIterations(t) == prog[tasks[t].node].max
IsBoundError(e, max) ==
    heap[e].msg = "Cycle exceeded maximum iterations (" \o ToString(max) \o ")"

\* C6: for maxIterations >= 1, bodyFn is never invoked more than
\* maxIterations times, and a cycle whose count of body invocations reaches
\* maxIterations has failed with the iteration-bound error right after that
\* invocation, the condition not evaluated again.
C6_CycleBound ==
    \A t \in RootsOf("cycle") :
        MaxIterations(t) >= 1
        => /\ BodyInvokes(t) <= MaxIterations(t)
           /\ tasks[t].iter >= MaxIterations(t)
              => /\ tasks[t].iter = MaxIterations(t)
                 /\ tasks[t].st = "rejected"
                 /\ IsBoundError(tasks[t].err, MaxIterations(t))
                 /\ CondInvokes(t) = MaxIterations(t)

\* A cycle has failed on its bound although the condition is false on the
\* value the last iteration produced.
C6_Witness ==
    \E t \in RootsOf("cycle") :
        /\ MaxIterations(t) >= 2
        /\ tasks[t].iter = MaxIterations(t)
        /\ tasks[t].st = "rejected"
        /\ LeafFn(KidKind(t, 2), tasks[t].cur).ok
        /\ ~Truthy(LeafFn(KidKind(t, 2), tasks[t].cur).val)

\* bodyFn applied k times to x, bodyFn a function that succeeds.
RECURSIVE BodyPower(_, _, _)
BodyPower(kind, k, x) == IF k = 0 THEN x ELSE LeafFn(kind, BodyPower(kind, k - 1, x)).val

CondFalse(kind, v) == LeafFn(kind, v).ok /\ ~Truthy(LeafFn(kind, v).val)
CondTrue(kind, v) == LeafFn(kind, v).ok /\ Truthy(LeafFn(kind, v).val)

\* The value is bodyFn applied k times to the input for the least k at which
\* the condition is false.
LeastFixed(t) ==
    \E k \in 0..(MaxMax + 1) :
        /\ tasks[t].val = BodyPower(KidKind(t, 1), k, tasks[t].arg)
        /\ CondFalse(KidKind(t, 2), tasks[t].val)
        /\ \A j \in 0..(k - 1) :
              CondTrue(KidKind(t, 2), BodyPower(KidKind(t, 1), j, tasks[t].arg))

\* C7 as stated: for every max >= 0, a cycle that resolves returns bodyFn
\* applied k times to x for the least k at which the condition is false.
C7_CycleResult ==
    \A t \in RootsOf("cycle") : tasks[t].st = "resolved" => LeastFixed(t)

\* C7 amended: the same for every max >= 1.
C7_CycleResultPositiveMax ==
    \A t \in RootsOf("cycle") :
        (MaxIterations(t) >= 1 /\ tasks[t].st = "resolved") => LeastFixed(t)

\* A cycle has resolved after two iterations.
C7_Witness ==
    \E t \in RootsOf("cycle") :
        /\ MaxIterations(t) >= 1
        /\ tasks[t].st = "resolved"
        /\ tasks[t].iter = 2
        /\ tasks[t].val # tasks[t].arg

\* C8: if the condition is false on the input, the cycle resolves with the
\* input and bodyFn is not invoked, for every max.
C8_CycleZeroIterations ==
    \A t \in RootsOf("cycle") :
        CondFalse(KidKind(t, 2), tasks[t].arg)
        => /\ BodyInvokes(t) = 0
           /\ tasks[t].st # "rejected"
           /\ tasks[t].st = "resolved" => tasks[t].val = tasks[t].arg
           /\ Quiescent => tasks[t].st = "resolved"

\* A cycle with maxIterations 1 and an asynchronous condition that is false
\* on the input has resolved.
C8_Witness ==
    \E t \in RootsOf("cycle") :
        /\ CondFalse(KidKind(t, 2), tasks[t].arg)
        /\ KidMode(t, 2) = "async"
        /\ MaxIterations(t) = 1
        /\ tasks[t].st = "resolved"
        /\ tasks[t].val = tasks[t].arg

\* The failures of the entries of task t, in the order in which they happened.
FailuresFor(t) ==
    LET Test(e) == e.ev = "settle" /\ e.pt = t /\ ~e.ok IN SelectSeq(log, Test)

\* C11: when the step at index i of a parallel fails with a validation error,
\* the step synchronous or asynchronous, the error the parallel rejects with
\* has "<label>[i]" (label "parallel" by default) in front of its flowContext.
C11_ParallelFlowContext ==
    \A t \in RootsOf("parallel") :
        (tasks[t].st = "rejected" /\ heap[tasks[t].err].kind = "ValidationError")
        => /\ heap[tasks[t].err].flowSet
           /\ Len(heap[tasks[t].err].flow) >= 1
           /\ Head(heap[tasks[t].err].flow) =
                 FlowEntry(ParallelLabel(prog[tasks[t].node]),
                           IndexIn(tasks[t].node, heap[tasks[t].err].node))

\* C12: on every invocation of a parallel of step functions every step is
\* invoked exactly once, with the input of the parallel, before the outcome
\* of any step is looked at, whatever the other steps do (succeed, reject or
\* throw synchronously).
C12_ParallelAllInvoked ==
    \A t \in RootsOf("parallel") :
        AllFunctions
        => /\ Len(InvokesBy(t)) = Len(Kids(t))
           /\ \A j \in DOMAIN InvokesBy(t) :
                 /\ InvokesBy(t)[j].ps = j
                 /\ InvokesBy(t)[j].val = tasks[t].arg

\* C13: when a step of a parallel of step functions fails, the parallel
\* rejects with the failure of the step that failed first in time, and it
\* has rejected as soon as the pending reactions have run, whether or not
\* the other steps have settled.
C13_ParallelFirstFailure ==
    \A t \in RootsOf("parallel") :
        AllFunctions
        => /\ tasks[t].st = "rejected"
              => /\ Len(FailuresFor(t)) >= 1
                 /\ tasks[t].err = FailuresFor(t)[1].val
           /\ (Len(FailuresFor(t)) >= 1 /\ queue = <<>>) => tasks[t].st = "rejected"

\* C14: once the step at index i of a pipe has failed, with any error, no
\* step with a greater index is ever invoked in that invocation, the pipe
\* does not resolve, and it has rejected when the pending reactions have run.
C14_PipeStopsAtFailure ==
    \A t \in RootsOf("pipe") :
        \A p \in DOMAIN log :
            (log[p].ev = "settle" /\ log[p].pt = t /\ ~log[p].ok)
            => /\ \A q \in DOMAIN log :
                     (log[q].ev = "invoke" /\ log[q].pt = t) => log[q].ps <= log[p].ps
               /\ tasks[t].st # "resolved"
               /\ queue = <<>> => tasks[t].st = "rejected"

\* The asynchronous first step of a pipe of three steps has failed with a
\* validation error and the pipe has rejected with it; the second and third
\* step, which would have succeeded, were never invoked.
C14_Witness ==
    \E t \in RootsOf("pipe") :
        /\ Len(Kids(t)) = 3
        /\ KidMode(t, 1) = "async"
        /\ KidKind(t, 2) = "inc"
        /\ KidKind(t, 3) = "dbl"
        /\ Len(InvokesBy(t)) = 1
        /\ Len(FailuresFor(t)) = 1
        /\ tasks[t].st = "rejected"
        /\ tasks[t].err = FailuresFor(t)[1].val

\* C15: for a pipe or parallel of step functions built without a schema, with
\* or without a label, the error the composed function rejects with is the
\* object one of its steps failed with, and when that is not a validation
\* error it is as the step created it: same message, no context added, not
\* wrapped in another error.  No such error is changed at any time.
C15_PlainErrorsVerbatim ==
    \A t \in RootsOf("pipe") \cup RootsOf("parallel") :
        AllFunctions
        => /\ tasks[t].st = "rejected"
              => /\ \E j \in DOMAIN FailuresFor(t) : FailuresFor(t)[j].val = tasks[t].err
                 /\ prog[heap[tasks[t].err].node].type = "leaf"
           /\ \A e \in DOMAIN heap :
                 heap[e].kind = "Error" => heap[e] = Error("Test error", heap[e].node)
           /\ (Len(FailuresFor(t)) >= 1 /\ queue = <<>>) => tasks[t].st = "rejected"

\* A pipe labeled "flow" of three steps has rejected with the plain error its
\* asynchronous first step failed with: the error went through the catch
\* clause of all three reducer callbacks.
C15_Witness ==
    \E t \in RootsOf("pipe") :
        /\ prog[tasks[t].node].label = "flow"
        /\ Len(Kids(t)) = 3
        /\ KidKind(t, 1) = "failE"
        /\ KidMode(t, 1) = "async"
        /\ tasks[t].st = "rejected"
        /\ heap[tasks[t].err].kind = "Error"
        /\ heap[tasks[t].err].node = Kids(t)[1]

\* What nodeContext is expected to be for wrapper t: its label, else the name
\* of the wrapped function, else "anonymous".
ExpectedContext(t) ==
    LET nd == prog[tasks[t].node]
        fn == prog[nd.kids[1]]
    IN CASE nd.label = "check" -> "check"
         [] nd.label = NoLabel /\ fn.kind = "inc" -> "addOne"
         [] nd.label = NoLabel /\ fn.kind = "failE" -> "throwError"
         [] OTHER -> "anonymous"

\* C16: a function built by withSchema with an input schema.  When the input
\* fails to parse, the call has failed with a validation error whose
\* nodeContext is the label (or the function's name, or "anonymous"), whose
\* received is the raw input and whose errors are the schema's issues, and
\* fn is never invoked.  When it parses, fn is invoked exactly once, with the
\* parsed value.
C16_InputSchema ==
    \A t \in RootsOf("schema") :
        LET nd == prog[tasks[t].node]
            data == tasks[t].arg
        IN nd.input # NoSchema
           => IF SafeParse(nd.input, data).success
              THEN /\ Len(InvokesBy(t)) = 1
                   /\ InvokesBy(t)[1].node = nd.kids[1]
                   /\ InvokesBy(t)[1].val = SafeParse(nd.input, data).data
              ELSE /\ Len(InvokesBy(t)) = 0
                   /\ tasks[t].st = "rejected"
                   /\ heap[tasks[t].err].kind = "ValidationError"
                   /\ heap[tasks[t].err].nodeContext = ExpectedContext(t)
                   /\ heap[tasks[t].err].recvSet
                   /\ heap[tasks[t].err].received = data
                   /\ heap[tasks[t].err].errors = SafeParse(nd.input, data).issues
                   /\ heap[tasks[t].err].errors # <<>>

\* withSchema(addOne, { input: z.number().positive() })(0) has failed with a
\* validation error of node "addOne" that holds the input 0, and addOne was
\* not invoked.
C16_Witness ==
    \E t \in RootsOf("schema") :
        /\ prog[tasks[t].node].input = "positive"
        /\ prog[tasks[t].node].label = NoLabel
        /\ KidKind(t, 1) = "inc"
        /\ tasks[t].arg = 0
        /\ tasks[t].st = "rejected"
        /\ heap[tasks[t].err].nodeContext = "addOne"
        /\ heap[tasks[t].err].received = 0
        /\ Len(InvokesBy(t)) = 0

\* The label a flow built with validation options hands to withSchema: its
\* own label, by default the name of the primitive.
ExpectedFlowLabel(t) ==
    LET core == prog[Kids(t)[1]]
    IN IF core.label # NoLabel THEN core.label ELSE core.type

\* C17: when the function wrapped by withSchema fails with an error that is
\* not a validation error, the wrapper rejects with a new error whose message
\* is "Function '<label>' execution failed: <original message>"; so a pipe,
\* parallel or branch built with a schema never rejects with the plain error
\* object one of its steps failed with.
C17_WrappedErrors ==
    \A t \in RootsOf("schema") :
        /\ \A j \in DOMAIN FailuresFor(t) :
              heap[FailuresFor(t)[j].val].kind = "Error"
              => /\ queue = <<>> => tasks[t].st = "rejected"
                 /\ tasks[t].st = "rejected"
                    => /\ tasks[t].err # FailuresFor(t)[j].val
                       /\ heap[tasks[t].err].kind = "Error"
                       /\ heap[tasks[t].err].node = tasks[t].node
                       /\ heap[tasks[t].err].msg =
                             "Function '" \o ExpectedFlowLabel(t)
                             \o "' execution failed: "
                             \o heap[FailuresFor(t)[j].val].msg
        /\ tasks[t].st = "rejected"
           => \A p \in DOMAIN log :
                 (log[p].ev = "settle" /\ ~log[p].ok
                  /\ prog[log[p].node].type = "leaf"
                  /\ heap[log[p].val].kind = "Error")
                 => log[p].val # tasks[t].err

\* parallel(fns, { input: z.number().positive(), label: 'flow' }) has
\* rejected with "Function 'flow' execution failed: Test error" after one of
\* its asynchronous steps failed with the error "Test error".
C17_Witness ==
    \E t \in RootsOf("schema") :
        /\ prog[Kids(t)[1]].type = "parallel"
        /\ prog[Kids(t)[1]].label = "flow"
        /\ tasks[t].st = "rejected"
        /\ heap[tasks[t].err].msg = "Function 'flow' execution failed: Test error"
        /\ \E p \in DOMAIN log :
              /\ log[p].ev = "settle" /\ ~log[p].ok
              /\ prog[log[p].node].type = "leaf"
              /\ prog[log[p].node].mode = "async"
              /\ heap[log[p].val].msg = "Test error"

\* The parses of the input (slot 1) and of the output (slot 2) by wrapper t.
ParsesOf(t, slot) ==
    LET Test(e) == e.ev = "parse" /\ e.pt = t /\ e.ps = slot IN SelectSeq(log, Test)

\* C18: a function built by withSchema with an output schema.  The output is
\* parsed only when fn succeeded, once, and what is parsed is fn's result.
\* When the parse fails the call fails with a validation error whose
\* received is that result and whose nodeContext is the label; when it
\* succeeds the call returns the parsed output.
C18_OutputSchema ==
    \A t \in RootsOf("schema") :
        LET nd == prog[tasks[t].node]
            outs == SettlesFor(t)
            parses == ParsesOf(t, 2)
        IN nd.output # NoSchema
           => /\ Len(parses) <= 1
              /\ \A k \in DOMAIN parses :
                    /\ Len(outs) = 1
                    /\ outs[1].ok
                    /\ parses[k].val = outs[1].val
              /\ (Len(outs) = 1 /\ queue = <<>>) => tasks[t].st # "pending"
              /\ (Len(outs) = 1 /\ outs[1].ok /\ tasks[t].st # "pending")
                 => /\ Len(parses) = 1
                    /\ IF SafeParse(nd.output, outs[1].val).success
                       THEN /\ tasks[t].st = "resolved"
                            /\ tasks[t].val = SafeParse(nd.output, outs[1].val).data
                       ELSE /\ tasks[t].st = "rejected"
                            /\ heap[tasks[t].err].kind = "ValidationError"
                            /\ heap[tasks[t].err].recvSet
                            /\ heap[tasks[t].err].received = outs[1].val
                            /\ heap[tasks[t].err].nodeContext = ExpectedContext(t)
                            /\ heap[tasks[t].err].errors =
                                  SafeParse(nd.output, outs[1].val).issues

\* withSchema(addOne, { output: z.number().min(18) }, 'check')(0) has failed
\* with a validation error of node "check" that holds addOne's output 1.
C18_Witness ==
    \E t \in RootsOf("schema") :
        /\ prog[tasks[t].node].output = "min18"
        /\ prog[tasks[t].node].input = NoSchema
        /\ prog[tasks[t].node].label = "check"
        /\ KidKind(t, 1) = "inc"
        /\ tasks[t].arg = 0
        /\ tasks[t].st = "rejected"
        /\ heap[tasks[t].err].kind = "ValidationError"
        /\ heap[tasks[t].err].received = 1
        /\ heap[tasks[t].err].nodeContext = "check"

\* C19: a function built by withSchema with neither schema has the outcome
\* of fn for every input: it resolves with the value fn gave, or rejects
\* with the error object fn failed with, its message the one fn gave it.
C19_NoSchemaTransparent ==
    \A t \in RootsOf("schema") :
        LET nd == prog[tasks[t].node]
            outs == SettlesFor(t)
        IN (nd.input = NoSchema /\ nd.output = NoSchema)
           => /\ (Len(outs) = 1 /\ queue = <<>>) => tasks[t].st # "pending"
              /\ tasks[t].st = "resolved"
                 => /\ Len(outs) = 1
                    /\ outs[1].ok
                    /\ tasks[t].val = outs[1].val
              /\ tasks[t].st = "rejected"
                 => /\ Len(outs) = 1
                    /\ ~outs[1].ok
                    /\ tasks[t].err = outs[1].val
                    /\ heap[tasks[t].err].msg =
                          StepError(heap[tasks[t].err].kind, nd.kids[1]).msg

\* The invocations of the core function by wrapper t (one at most).
CoresOf(t) == {c \in DOMAIN tasks : tasks[c].pt = t}

\* Every parse made so far, by any function.
AllParses == LET Test(e) == e.ev = "parse" IN SelectSeq(log, Test)

\* C20: a pipe built with validation options validates the composition as a
\* whole.  The input schema is checked once, on the input of the composed
\* function, before any step is invoked; when it fails no step is invoked
\* and the error's received is that input.  The output schema is checked
\* once, on the output of the last step.  Nothing else is checked: there are
\* no more parses than schemas, however many steps the pipe has.
C20_PipeValidatedAsWhole ==
    \A t \in RootsOf("schema") :
        LET nd == prog[tasks[t].node]
            core == nd.kids[1]
            last == Len(prog[core].kids)
        IN prog[core].type = "pipe"
           => /\ Len(ParsesOf(t, 1)) = IF nd.input # NoSchema THEN 1 ELSE 0
              /\ Len(ParsesOf(t, 2)) <= IF nd.output # NoSchema THEN 1 ELSE 0
              /\ Len(AllParses) = Len(ParsesOf(t, 1)) + Len(ParsesOf(t, 2))
              /\ (nd.output # NoSchema /\ tasks[t].st # "pending"
                  /\ \E c \in CoresOf(t) : tasks[c].st = "resolved")
                 => Len(ParsesOf(t, 2)) = 1
              /\ \A p \in DOMAIN log :
                    (log[p].ev = "parse" /\ log[p].ps = 1)
                    => /\ log[p].val = tasks[t].arg
                       /\ \A q \in DOMAIN log :
                             (log[q].ev = "invoke" /\ log[q].pt # 0) => p < q
                       /\ ~log[p].ok
                          => /\ \A q \in DOMAIN log :
                                   log[q].ev = "invoke" => log[q].pt = 0
                             /\ tasks[t].st = "rejected"
                             /\ heap[tasks[t].err].kind = "ValidationError"
                             /\ heap[tasks[t].err].received = tasks[t].arg
              /\ \A p \in DOMAIN log :
                    (log[p].ev = "parse" /\ log[p].ps = 2)
                    => \E q \in 1..(p - 1) :
                          /\ log[q].ev = "settle"
                          /\ log[q].pt \in CoresOf(t)
                          /\ log[q].ps = last
                          /\ log[q].ok
                          /\ log[q].val = log[p].val

\* A pipe of three steps with input schema z.number() and output schema
\* z.number().positive() has resolved on input 0 although its first step
\* produced 0, which the output schema rejects: two parses were made, one of
\* the input 0 and one of the last step's output.
C20_Witness ==
    \E t \in RootsOf("schema") :
        /\ prog[Kids(t)[1]].type = "pipe"
        /\ Len(prog[Kids(t)[1]].kids) = 3
        /\ prog[tasks[t].node].input = "number"
        /\ prog[tasks[t].node].output = "positive"
        /\ tasks[t].arg = 0
        /\ tasks[t].st = "resolved"
        /\ Len(AllParses) = 2
        /\ \E q \in DOMAIN log :
              /\ log[q].ev = "settle"
              /\ log[q].pt \in CoresOf(t)
              /\ log[q].ps = 1
              /\ log[q].ok
              /\ ~SafeParse("positive", log[q].val).success

(***************************************************************************)
(* Configuration errors and shape errors                                   *)
(***************************************************************************)
\* The arguments of a pipe or a branch that the primitive must refuse.
Malformed(p) ==
    \/ p[1].type = "pipe" /\ (p[1].kind = NotArray \/ p[1].kids = <<>>)
    \/ p[1].type = "branch" /\ \E i \in 1..3 : p[p[1].kids[i]].type = "notfn"

\* C21: pipe given a step list that is not an array or is empty, and branch
\* given a condition, trueFn or falseFn that is not a function, throw when
\* the primitive is constructed: there is no composed function, nothing is
\* ever invoked, and the throw is the one error there is.
C21_ConstructionThrows ==
    Malformed(prog)
    => /\ built # "ok"
       /\ tasks = <<>> /\ log = <<>> /\ queue = <<>>
       /\ built = "threw" => Len(heap) = 1 /\ heap[1].kind = "Error"

\* An empty pipe has been refused.
C21_Witness ==
    /\ built = "threw"
    /\ prog[1].type = "pipe" /\ prog[1].kind # NotArray /\ prog[1].kids = <<>>
    /\ heap[1].msg = "pipe() requires at least one function"

\* A configuration error: a step list that is not an array, or an argument
\* of branch or cycle that is not a function.
ConfigError(p) ==
    \/ p[1].kind = NotArray
    \/ /\ p[1].type \in {"branch", "cycle"}
       /\ \E i \in DOMAIN p[1].kids : p[p[1].kids[i]].type = "notfn"

\* C22: for each of the five primitives a configuration error fails when
\* the primitive is constructed: no composed function is returned, and no
\* invocation ever rejects with it.
C22_ConfigErrorsAtConstruction ==
    ConfigError(prog)
    => /\ built # "ok"
       /\ \A t \in Roots : tasks[t].st # "rejected"

\* The indices (from 1) of the entries of t's step list that are no functions.
NonFunctions(t) == {i \in DOMAIN Kids(t) : prog[Kids(t)[i]].type = "notfn"}

PipeShapeMessage(index, ty) ==
    "All items in pipe array must be functions (item " \o ToString(index)
    \o " is " \o ty \o ")"

\* C23: a pipe whose step list is a non-empty array is constructed, whatever
\* its entries; when an entry is not a function every invocation rejects,
\* once the pending reactions have run, with an error that names the index
\* (from 0) and the typeof of an entry that is not a function.
C23_PipeShapeAtInvocation ==
    /\ (prog[1].type = "pipe" /\ prog[1].kind # NotArray /\ prog[1].kids # <<>>)
       => built # "threw"
    /\ \A t \in RootsOf("pipe") :
          NonFunctions(t) # {}
          => /\ tasks[t].st # "resolved"
             /\ queue = <<>> => tasks[t].st = "rejected"
             /\ tasks[t].st = "rejected"
                => \E i \in NonFunctions(t) :
                      /\ heap[tasks[t].err].kind = "Error"
                      /\ heap[tasks[t].err].msg = PipeShapeMessage(i - 1, KidKind(t, i))

\* A pipe with a function and, after it, an entry that is a number was
\* constructed, invoked and has rejected with the error about item 1.
C23_Witness ==
    \E t \in RootsOf("pipe") :
        /\ built = "ok"
        /\ Len(Kids(t)) >= 2
        /\ NonFunctions(t) = {2}
        /\ tasks[t].st = "rejected"
        /\ heap[tasks[t].err].msg = PipeShapeMessage(1, "number")

ParallelShapeMessage(index, ty) ==
    "All items in parallel array must be functions (item " \o ToString(index)
    \o " is " \o ty \o ")"

\* C24: every invocation of a parallel whose step list has an entry that is
\* not a function rejects, and the error it rejects with names the index
\* (from 0) of an entry that is not a function.
C24_ParallelShapeAtInvocation ==
    \A t \in RootsOf("parallel") :
        NonFunctions(t) # {}
        => /\ tasks[t].st = "rejected"
           /\ \E i \in NonFunctions(t) :
                 heap[tasks[t].err].msg = ParallelShapeMessage(i - 1, KidKind(t, i))

(***************************************************************************)
(* Error context of branch, race and cycle                                 *)
(***************************************************************************)
\* The flowContext the failure of entry k of a branch has when the branch
\* catches it: none from a step function, the entry "<label>[i]" from a
\* pipe of one step.
StepContext(k, e) ==
    IF prog[k].type = "pipe"
    THEN <<FlowEntry(PipeLabel(prog[k]), IndexIn(k, heap[e].node))>>
    ELSE <<>>

\* C25: a branch that rejects does so with the error of its condition or of
\* the chosen branch, the same object.  When it is a validation error its
\* flowContext is the label of the branch (default "branch", no index),
\* once, in front of what it was; any other error has no flowContext, and
\* neither kind has its message or nodeContext touched.
C25_BranchFlowContext ==
    \A t \in RootsOf("branch") :
        tasks[t].st = "rejected"
        => LET e == tasks[t].err
               f == FailuresFor(t)
           IN /\ Len(f) = 1 /\ f[1].val = e
              /\ heap[e].msg = StepError(heap[e].kind, 0).msg
              /\ heap[e].nodeContext = NoLabel
              /\ IF heap[e].kind = "ValidationError"
                 THEN /\ heap[e].flowSet
                      /\ heap[e].flow =
                            <<BranchLabel(prog[tasks[t].node])>> \o StepContext(f[1].node, e)
                 ELSE ~heap[e].flowSet /\ heap[e].flow = <<>>

\* A branch labelled "choose" has rejected with the validation error of the
\* pipe it chose, which the pipe had annotated before.
C25_Witness ==
    \E t \in RootsOf("branch") :
        /\ tasks[t].st = "rejected"
        /\ heap[tasks[t].err].kind = "ValidationError"
        /\ heap[tasks[t].err].flow = <<"choose", "pipe[0]">>

\* C26: on every invocation of a race of step functions every step is
\* invoked exactly once, in the order of the list, with the input of the
\* race, whatever the other steps do (a synchronous throw included).
C26_RaceAllInvoked ==
    \A t \in RootsOf("race") :
        (AllFunctions /\ prog[1].kind # NotArray)
        => /\ Len(InvokesBy(t)) = Len(Kids(t))
           /\ \A j \in DOMAIN InvokesBy(t) :
                 /\ InvokesBy(t)[j].ps = j
                 /\ InvokesBy(t)[j].val = tasks[t].arg

\* C27: a race or a cycle that rejects with an error it did not create
\* itself rejects with the error object of one of its steps (of bodyFn or
\* the condition), whose message, nodeContext and flowContext are as the
\* step left them; and the failure of a cycle's bodyFn or condition is what
\* the cycle rejects with once the pending reactions have run.
C27_NoContextAdded ==
    \A t \in RootsOf("race") \cup RootsOf("cycle") :
        /\ (tasks[t].st = "rejected" /\ heap[tasks[t].err].node # tasks[t].node)
           => \E p \in DOMAIN FailuresFor(t) :
                 LET e == tasks[t].err
                     left == StepContext(FailuresFor(t)[p].node, e)
                 IN /\ FailuresFor(t)[p].val = e
                    /\ heap[e].msg = StepError(heap[e].kind, 0).msg
                    /\ heap[e].nodeContext = NoLabel
                    /\ heap[e].flow = left
                    /\ heap[e].flowSet = (left # <<>>)
        /\ (prog[tasks[t].node].type = "cycle" /\ Len(FailuresFor(t)) >= 1 /\ queue = <<>>)
           => (tasks[t].st = "rejected" /\ tasks[t].err = FailuresFor(t)[1].val)

\* A race has rejected with the validation error of a pipe among its
\* steps; the error carries the entry of the pipe and nothing else.
C27_Witness ==
    \E t \in RootsOf("race") :
        /\ tasks[t].st = "rejected"
        /\ heap[tasks[t].err].kind = "ValidationError"
        /\ heap[tasks[t].err].flow = <<"pipe[0]">>

(***************************************************************************)
(* In-flight steps                                                         *)
(***************************************************************************)
\* The settlements of the promise the composed function returned, in order.
RootSettles ==
    LET Test(e) == e.ev = "settle" /\ e.pt = 0 IN SelectSeq(log, Test)

\* The outcome of the composed function is the one its promise was settled
\* with first, and the promise was settled once.
OutcomeKept ==
    \A t \in Roots :
        tasks[t].st # "pending"
        => /\ Len(RootSettles) = 1
           /\ IF RootSettles[1].ok
              THEN tasks[t].st = "resolved" /\ tasks[t].val = RootSettles[1].val
              ELSE tasks[t].st = "rejected" /\ tasks[t].err = RootSettles[1].val

\* Step k was started by the composed function, whose promise is settled,
\* and has not settled itself; step k has settled.
InFlight(k) ==
    IF k \in DOMAIN tasks
    THEN tasks[k].pt = 1 /\ tasks[k].st = "pending" /\ tasks[1].st # "pending"
    ELSE FALSE
Completed(k) == IF k \in DOMAIN tasks THEN tasks[k].st # "pending" ELSE FALSE

\* C28: once the promise of a race or a parallel is settled no later step of
\* the run changes its outcome, and every step function that is still in
\* flight at that time settles all the same.
C28_NoCancellation ==
    /\ []OutcomeKept
    /\ \A k \in TaskIds : InFlight(k) ~> Completed(k)

\* A race was won by a step that succeeded; a step that was in flight then
\* has failed later, and the race is still resolved.
C28_Witness ==
    \E t \in RootsOf("race") :
        \E p, q \in DOMAIN log :
            /\ p < q
            /\ log[p].ev = "settle" /\ log[p].pt = 0 /\ log[p].ok
            /\ log[q].ev = "settle" /\ log[q].pt = t /\ ~log[q].ok
            /\ tasks[t].st = "resolved"

(***************************************************************************)
(* Invocations of one composed function                                    *)
(***************************************************************************)
\* What the loop of cycle(bodyFn, condition, max) gives from the value cur
\* after it iterations, bodyFn and condition functions that succeed: the
\* outcome, the value returned and the count of iterations.
RECURSIVE Loop(_, _, _, _, _)
Loop(b, c, max, cur, it) ==
    IF ~(Truthy(LeafFn(c, cur).val) /\ it < max)
    THEN [st |-> "resolved", val |-> cur, iter |-> it]
    ELSE IF it + 1 >= max
         THEN [st |-> "rejected", val |-> 0, iter |-> it + 1]
         ELSE Loop(b, c, max, LeafFn(b, cur).val, it + 1)

\* The second call was made before any invocation had settled.
Overlapped ==
    \E q \in DOMAIN log :
        /\ log[q].ev = "invoke" /\ log[q].pt = 0
        /\ \E p \in 1..(q - 1) : log[p].ev = "invoke" /\ log[p].pt = 0
        /\ \A p \in 1..(q - 1) : ~(log[p].ev = "settle" /\ log[p].pt = 0)

\* C29: of two invocations of one cycle, however their steps interleave,
\* each calls bodyFn with the values that follow from its own input, counts
\* its own iterations, and settles with the result or the bound failure the
\* loop gives for its own input; it has settled when nothing is in flight.
C29_CycleCallsIndependent ==
    \A t \in RootsOf("cycle") :
        LET b == KidKind(t, 1)
            c == KidKind(t, 2)
            o == Loop(b, c, MaxIterations(t), tasks[t].arg, 0)
        IN /\ \A k \in DOMAIN InvokesOfSlot(t, 2) :
                 InvokesOfSlot(t, 2)[k].val = BodyPower(b, k - 1, tasks[t].arg)
           /\ tasks[t].iter <= o.iter
           /\ tasks[t].st # "pending"
              => /\ tasks[t].st = o.st
                 /\ tasks[t].iter = o.iter
                 /\ tasks[t].st = "resolved" => tasks[t].val = o.val
                 /\ tasks[t].st = "rejected"
                    => IsBoundError(tasks[t].err, MaxIterations(t))
           /\ Quiescent => tasks[t].st # "pending"

\* Two invocations with different inputs overlapped; one has failed at the
\* bound, the other has resolved.
C29_Witness ==
    /\ Overlapped
    /\ \E t, u \in RootsOf("cycle") :
          /\ tasks[t].arg # tasks[u].arg
          /\ tasks[t].st = "rejected"
          /\ tasks[u].st = "resolved"
          /\ tasks[u].iter >= 1

\* What the caller can tell of an error: everything but the object itself.
SameError(d, e) ==
    /\ heap[d].kind = heap[e].kind
    /\ heap[d].msg = heap[e].msg
    /\ heap[d].nodeContext = heap[e].nodeContext
    /\ heap[d].flowSet = heap[e].flowSet
    /\ heap[d].flow = heap[e].flow
    /\ heap[d].errors = heap[e].errors
    /\ heap[d].recvSet = heap[e].recvSet
    /\ heap[d].received = heap[e].received

\* C30: two invocations of one composed function with equal inputs, with
\* any other invocation before or between them, end alike: both resolve
\* with the same value, or both reject with errors that are equal in every
\* field.
C30_NoStateBetweenCalls ==
    \A t, u \in Roots :
        (tasks[t].arg = tasks[u].arg /\ tasks[t].st # "pending" /\ tasks[u].st # "pending")
        => /\ tasks[t].st = tasks[u].st
           /\ tasks[t].st = "resolved" => tasks[t].val = tasks[u].val
           /\ tasks[t].st = "rejected" => SameError(tasks[t].err, tasks[u].err)

\* Three invocations have ended: the first and the third had the same input
\* and resolved, the one between them had another input and another result.
C30_Witness ==
    \E t, u, w \in Roots :
        /\ t < u /\ u < w
        /\ tasks[t].arg = tasks[w].arg /\ tasks[u].arg # tasks[t].arg
        /\ tasks[t].st = "resolved" /\ tasks[w].st = "resolved"
        /\ tasks[u].st # "pending"
        /\ tasks[u].st = "resolved" => tasks[u].val # tasks[t].val

(***************************************************************************)
(* Failures at invocation                                                  *)
(***************************************************************************)
\* A step of t has thrown synchronously.
SyncFailure(t) ==
    \E p \in DOMAIN FailuresFor(t) :
        /\ prog[FailuresFor(t)[p].node].type = "leaf"
        /\ prog[FailuresFor(t)[p].node].mode = "sync"

\* C31: in every state in which there is a composed function, invoking it
\* with any input returns a promise, it does not throw; and the failures of
\* an invocation reject that promise: a step list that is not an array, an
\* entry that is not a function and a step that throws synchronously, for
\* every primitive, once the pending reactions have run, and for a parallel
\* or a race at once.
C31_FailuresReject ==
    /\ built = "ok" => \A x \in Inputs : InvokeNode(St, 1, x, 0, 0).r.tag = "promise"
    /\ \A t \in Roots :
          LET type == prog[tasks[t].node].type
              failed == \/ SyncFailure(t)
                        \/ NonFunctions(t) # {}
                        \/ prog[tasks[t].node].kind = NotArray
          IN /\ (failed /\ type \in {"parallel", "race"}) => tasks[t].st = "rejected"
             /\ (failed /\ queue = <<>>) => tasks[t].st = "rejected"

\* A parallel whose second step throws synchronously has rejected with the
\* error of that step, the first step still in flight.
C31_Witness ==
    \E t \in RootsOf("parallel") :
        /\ tasks[t].st = "rejected"
        /\ heap[tasks[t].err].msg = "Test error"
        /\ Len(Kids(t)) = 2
        /\ KidMode(t, 1) = "async"
        /\ \E k \in DOMAIN tasks : tasks[k].pt = t /\ tasks[k].st = "pending"

(***************************************************************************)
(* The reference loop of the README                                        *)
(***************************************************************************)
\* while (await condition(current) && iterations < maxIterations) {
\*   current = await bodyFn(current); iterations++ }
\* return current
\* from the value cur after it iterations: the outcome, the value returned or
\* the kind of the error of the step that failed, and the iterations made.
RECURSIVE ReferenceLoop(_, _, _, _, _)
ReferenceLoop(b, c, max, cur, it) ==
    IF ~LeafFn(c, cur).ok
    THEN [st |-> "rejected", val |-> 0, err |-> LeafFn(c, cur).err, iter |-> it]
    ELSE IF ~(Truthy(LeafFn(c, cur).val) /\ it < max)
    THEN [st |-> "resolved", val |-> cur, err |-> "", iter |-> it]
    ELSE IF ~LeafFn(b, cur).ok
    THEN [st |-> "rejected", val |-> 0, err |-> LeafFn(b, cur).err, iter |-> it]
    ELSE ReferenceLoop(b, c, max, LeafFn(b, cur).val, it + 1)

Reference(t) ==
    ReferenceLoop(KidKind(t, 1), KidKind(t, 2), MaxIterations(t), tasks[t].arg, 0)

\* Invocation t ends as the reference loop does.
AsReference(t) ==
    /\ tasks[t].st = Reference(t).st
    /\ tasks[t].st = "resolved" => tasks[t].val = Reference(t).val
    /\ tasks[t].st = "rejected"
       => /\ heap[tasks[t].err].kind = Reference(t).err
          /\ heap[tasks[t].err].msg = StepError(Reference(t).err, 0).msg

\* C32 as stated: every invocation of a cycle that has ended has the
\* outcome of the reference loop for its input, the value it returns when
\* maxIterations is reached included; and it has ended when nothing is in
\* flight.
C32_CycleAsReference ==
    \A t \in RootsOf("cycle") :
        /\ tasks[t].st # "pending" => AsReference(t)
        /\ Quiescent => tasks[t].st # "pending"

\* C32 amended: the same whenever the reference loop ends before its count
\* of iterations reaches maxIterations, and for maxIterations = 0; when the
\* reference loop makes maxIterations >= 1 iterations the cycle rejects with
\* the error that reports the bound.
C32_CycleAsReferenceBelowBound ==
    \A t \in RootsOf("cycle") :
        /\ tasks[t].st # "pending"
           => IF MaxIterations(t) >= 1 /\ Reference(t).iter >= MaxIterations(t)
              THEN /\ tasks[t].st = "rejected"
                   /\ IsBoundError(tasks[t].err, MaxIterations(t))
              ELSE AsReference(t)
        /\ Quiescent => tasks[t].st # "pending"

\* A cycle has rejected at the bound on an input for which the reference
\* loop returns the current value.
C32_Witness ==
    \E t \in RootsOf("cycle") :
        /\ tasks[t].st = "rejected"
        /\ IsBoundError(tasks[t].err, MaxIterations(t))
        /\ Reference(t).st = "resolved"
        /\ Reference(t).iter = MaxIterations(t)

(***************************************************************************)
(* Error context through withSchema                                        *)
(***************************************************************************)
\* The argument node n was invoked with.
ArgOf(n) ==
    LET Test(ev) == ev.ev = "invoke" /\ ev.node = n IN SelectSeq(log, Test)[1].val

\* The error e as the node that created it made it: a step function, or a
\* withSchema whose input parse failed.
Created(e) ==
    LET n == heap[e].node
    IN IF prog[n].type = "leaf"
       THEN LeafError(LeafFn(prog[n].kind, ArgOf(n)).err, n, ArgOf(n))
       ELSE InputValidationError(n, SafeParse(prog[n].input, ArgOf(n)).issues, ArgOf(n))

\* C33: when the function wrapped by withSchema fails with a validation
\* error, the wrapper rejects with that error object; its nodeContext is the
\* one a deeper withSchema gave it, and the wrapper's own label only when
\* there is none below; its message, errors and received are as they were
\* created and its flowContext is as the wrapped function left it.
C33_NodeContextOnlyIfAbsent ==
    \A t \in RootsOf("schema") :
        (/\ tasks[t].st = "rejected"
         /\ Len(FailuresFor(t)) = 1
         /\ heap[FailuresFor(t)[1].val].kind = "ValidationError")
        => LET e == FailuresFor(t)[1].val
               k == FailuresFor(t)[1].node
               left == StepContext(k, e) \o Created(e).flow
           IN /\ tasks[t].err = e
              /\ heap[e] = [Created(e) EXCEPT
                              !.nodeContext =
                                  IF prog[k].type = "schema" THEN FunctionLabel(k)
                                  ELSE FunctionLabel(tasks[t].node),
                              !.flow = left,
                              !.flowSet = (left # <<>>)]

\* A wrapper labelled "check" has rejected with the error of
\* validate.between that went through a wrapper labelled "inner" first: the
\* nodeContext is "inner" and the flowContext is the one the error was born
\* with.
C33_Witness ==
    \E t \in RootsOf("schema") :
        /\ tasks[t].st = "rejected"
        /\ FunctionLabel(tasks[t].node) = "check"
        /\ heap[tasks[t].err].nodeContext = "inner"
        /\ heap[tasks[t].err].flow = <<"parse", "VALIDATION_FAILED", "save">>
        /\ heap[tasks[t].err].recvSet

(***************************************************************************)
(* Entries that are not functions and the steps around them                *)
(***************************************************************************)
\* The first entry of t's step list that is not a function.
FirstNonFunction(t) ==
    CHOOSE i \in NonFunctions(t) : \A j \in NonFunctions(t) : i <= j

\* Step i of t has completed successfully.
StepResolved(t, i) ==
    \E p \in DOMAIN SettlesFor(t) : SettlesFor(t)[p].ps = i /\ SettlesFor(t)[p].ok

\* The invocations of t's entries are those of steps 1, 2, ... in this order.
InvokedInOrder(t) ==
    \A p \in DOMAIN InvokesBy(t) : InvokesBy(t)[p].ps = p

\* C34: an entry that is not a function does not stop other steps from being
\* invoked.  In a pipe the steps before the first such entry are invoked in
\* order, each once the steps before it have completed, as they are without
\* the entry.  In a parallel the steps before the first such entry have been
\* invoked when the parallel rejects, and the steps after it are never
\* invoked.
C34_StepsAroundNonFunction ==
    /\ \A t \in RootsOf("pipe") :
          NonFunctions(t) # {}
          => /\ InvokedInOrder(t)
             /\ \A j \in DOMAIN Kids(t) :
                   /\ j >= FirstNonFunction(t) => InvokesOfSlot(t, j) = <<>>
                   /\ (j < FirstNonFunction(t) /\ Quiescent)
                      => (InvokesOfSlot(t, j) # <<>> <=> \A i \in 1..(j - 1) : StepResolved(t, i))
    /\ \A t \in RootsOf("parallel") :
          NonFunctions(t) # {}
          => \A j \in DOMAIN Kids(t) :
                /\ j > FirstNonFunction(t) => InvokesOfSlot(t, j) = <<>>
                /\ (j < FirstNonFunction(t) /\ tasks[t].st = "rejected")
                   => Len(InvokesOfSlot(t, j)) = 1

\* The last entry of t's step list that is not a function.
LastNonFunction(t) ==
    CHOOSE i \in NonFunctions(t) : \A j \in NonFunctions(t) : j <= i

\* C35: a pipe whose step list holds entries that are not functions never
\* resolves and rejects once the pending reactions have run; the error it
\* rejects with is the shape error of the highest index that holds a
\* non-function, with no context added, never the failure of a step below it.
C35_HighestNonFunctionReported ==
    \A t \in RootsOf("pipe") :
        NonFunctions(t) # {}
        => /\ tasks[t].st # "resolved"
           /\ queue = <<>> => tasks[t].st = "rejected"
           /\ tasks[t].st = "rejected"
              => /\ heap[tasks[t].err] =
                       PipeShapeError(tasks[t].node, LastNonFunction(t) - 1,
                                      KidKind(t, LastNonFunction(t)))
                 /\ \A p \in DOMAIN FailuresFor(t) : FailuresFor(t)[p].val # tasks[t].err

\* A pipe of a step that throws, a string and a number has rejected: the
\* step was invoked and has failed, and the error names item 2, a number.
C35_Witness ==
    \E t \in RootsOf("pipe") :
        /\ NonFunctions(t) = {2, 3}
        /\ KidKind(t, 1) = "failE"
        /\ FailuresFor(t) # <<>>
        /\ tasks[t].st = "rejected"
        /\ heap[tasks[t].err].msg = PipeShapeMessage(2, "number")

(***************************************************************************)
(* Several failing steps of a parallel                                     *)
(***************************************************************************)
\* The failures of t's steps that are validation errors.
ValidationFailures(t) ==
    LET Test(e) == e.ev = "settle" /\ e.pt = t /\ ~e.ok
                   /\ heap[e.val].kind = "ValidationError"
    IN SelectSeq(log, Test)

\* C36: when a parallel of step functions has rejected with a validation
\* error and more than one of its steps has failed with a validation error,
\* the flowContext of the error it rejected with is the one entry
\* "<label>[i]" of the step i that threw this error; no entry made for
\* another failing step is on it.
C36_OneEntryPerParallel ==
    \A t \in RootsOf("parallel") :
        (/\ tasks[t].st = "rejected"
         /\ heap[tasks[t].err].kind = "ValidationError"
         /\ Len(ValidationFailures(t)) > 1)
        => \E p \in DOMAIN ValidationFailures(t) :
              /\ ValidationFailures(t)[p].val = tasks[t].err
              /\ heap[tasks[t].err].flowSet
              /\ heap[tasks[t].err].flow =
                    <<FlowEntry(ParallelLabel(prog[tasks[t].node]),
                                ValidationFailures(t)[p].ps - 1)>>

(***************************************************************************)
(* The flowContext on the way up                                           *)
(***************************************************************************)
IsSuffix(s, w) == Len(s) <= Len(w) /\ SubSeq(w, Len(w) - Len(s) + 1, Len(w)) = s

\* In a step of the program every validation error stays one and keeps the
\* entries of its flowContext, in their order, at the end of it.
OnlyPrepended ==
    \A e \in DOMAIN heap :
        heap[e].kind = "ValidationError"
        => /\ heap'[e].kind = "ValidationError"
           /\ heap[e].flowSet => heap'[e].flowSet
           /\ IsSuffix(heap[e].flow, heap'[e].flow)

\* The error object the step at node n threw.
ThrownBy(n) ==
    LET Test(ev) == ev.ev = "settle" /\ ev.node = n /\ ~ev.ok IN SelectSeq(log, Test)

\* The validation error a composed function has rejected with is the object
\* a step threw, and what the step had put in its flowContext is the end of
\* the flowContext.
SameObjectRejected ==
    \A t \in Roots :
        (tasks[t].st = "rejected" /\ heap[tasks[t].err].kind = "ValidationError")
        => LET e == tasks[t].err
           IN /\ prog[heap[e].node].type = "leaf"
              /\ Len(ThrownBy(heap[e].node)) = 1
              /\ ThrownBy(heap[e].node)[1].val = e
              /\ IsSuffix(Created(e).flow, heap[e].flow)
              /\ [heap[e] EXCEPT !.flow = <<>>, !.flowSet = FALSE, !.nodeContext = NoLabel]
                 = [Created(e) EXCEPT !.flow = <<>>, !.flowSet = FALSE]

\* C37: through any nesting of pipe, parallel, branch and withSchema the
\* flowContext of a validation error only grows at the front: no step of the
\* program removes or reorders the entries it has, those preset by
\* validate.between included, and the error the caller gets is the object
\* the step threw.
C37_FlowContextOnlyPrepended ==
    []SameObjectRejected /\ [][OnlyPrepended]_heap

\* An error of validate.between has come up through two primitives that
\* annotate: two entries stand in front of the three it was born with.
C37_Witness ==
    \E t \in Roots :
        /\ tasks[t].st = "rejected"
        /\ Len(heap[tasks[t].err].flow) = 5
        /\ SubSeq(heap[tasks[t].err].flow, 3, 5) = <<"parse", "VALIDATION_FAILED", "save">>

====
